---------------------------- MODULE Spec2Model ----------------------------
(***************************************************************************)
(* The EPUB build scripts of the "Escape The Hell Myth" book project:      *)
(* check_metadata.py, create_epub_complete.py, create_both_epubs.py,       *)
(* create_kdp_epub.py and create_final_epub.py.                            *)
(*                                                                         *)
(* File names, ids and paths are sequences of one-character strings, so    *)
(* that sanitising, suffix handling and sorting are computed character by  *)
(* character as the scripts compute them.                                  *)
(***************************************************************************)
EXTENDS Integers, Sequences, FiniteSets, TLC

(***************************************************************************)
(* String literals of the scripts.                                         *)
(***************************************************************************)
Lit ==
    [ index |-> <<"i", "n", "d", "e", "x">>,
      cover |-> <<"c", "o", "v", "e", "r">>,
      copyright |-> <<"c", "o", "p", "y", "r", "i", "g", "h", "t">>,
      dedication |-> <<"d", "e", "d", "i", "c", "a", "t", "i", "o", "n">>,
      toc |-> <<"t", "o", "c">>,
      introduction |-> <<"i", "n", "t", "r", "o", "d", "u", "c", "t", "i", "o", "n">>,
      part1 |-> <<"p", "a", "r", "t", "1">>,
      chapter1 |-> <<"c", "h", "a", "p", "t", "e", "r", "1">>,
      chapter2 |-> <<"c", "h", "a", "p", "t", "e", "r", "2">>,
      part2 |-> <<"p", "a", "r", "t", "2">>,
      chapter3 |-> <<"c", "h", "a", "p", "t", "e", "r", "3">>,
      part3 |-> <<"p", "a", "r", "t", "3">>,
      chapter4 |-> <<"c", "h", "a", "p", "t", "e", "r", "4">>,
      chapter5 |-> <<"c", "h", "a", "p", "t", "e", "r", "5">>,
      part4 |-> <<"p", "a", "r", "t", "4">>,
      chapter6 |-> <<"c", "h", "a", "p", "t", "e", "r", "6">>,
      chapter7 |-> <<"c", "h", "a", "p", "t", "e", "r", "7">>,
      chapter8 |-> <<"c", "h", "a", "p", "t", "e", "r", "8">>,
      conclusion |-> <<"c", "o", "n", "c", "l", "u", "s", "i", "o", "n">>,
      other_h_books |-> <<"o", "t", "h", "e", "r", "-", "b", "o", "o", "k", "s">>,
      appendix |-> <<"a", "p", "p", "e", "n", "d", "i", "x">>,
      bibliography |-> <<"b", "i", "b", "l", "i", "o", "g", "r", "a", "p", "h", "y">>,
      acknowledgments |-> <<"a", "c", "k", "n", "o", "w", "l", "e", "d", "g", "m", "e", "n", "t", "s">>,
      cover_u_image |-> <<"c", "o", "v", "e", "r", "_", "i", "m", "a", "g", "e">>,
      cover_h_image |-> <<"c", "o", "v", "e", "r", "-", "i", "m", "a", "g", "e">>,
      ncx |-> <<"n", "c", "x">>,
      nav |-> <<"n", "a", "v">>,
      css |-> <<"c", "s", "s">>,
      mimetype |-> <<"m", "i", "m", "e", "t", "y", "p", "e">>,
      container_d_xml |-> <<"c", "o", "n", "t", "a", "i", "n", "e", "r", ".", "x", "m", "l">>,
      content_d_opf |-> <<"c", "o", "n", "t", "e", "n", "t", ".", "o", "p", "f">>,
      toc_d_ncx |-> <<"t", "o", "c", ".", "n", "c", "x">>,
      nav_d_xhtml |-> <<"n", "a", "v", ".", "x", "h", "t", "m", "l">>,
      style_d_css |-> <<"s", "t", "y", "l", "e", ".", "c", "s", "s">>,
      cover_d_xhtml |-> <<"c", "o", "v", "e", "r", ".", "x", "h", "t", "m", "l">>,
      d_html |-> <<".", "h", "t", "m", "l">>,
      d_xhtml |-> <<".", "x", "h", "t", "m", "l">>,
      d_jpg |-> <<".", "j", "p", "g">>,
      d_jpeg |-> <<".", "j", "p", "e", "g">>,
      d_png |-> <<".", "p", "n", "g">>,
      d_gif |-> <<".", "g", "i", "f">>,
      d_svg |-> <<".", "s", "v", "g">>,
      Untitled |-> <<"U", "n", "t", "i", "t", "l", "e", "d">>,
      Unknown |-> <<"U", "n", "k", "n", "o", "w", "n">>,
      Unknown_s_Publisher |-> <<"U", "n", "k", "n", "o", "w", "n", " ", "P", "u", "b", "l", "i", "s", "h", "e", "r">>,
      y2025 |-> <<"2", "0", "2", "5">>,
      en |-> <<"e", "n">>,
      fr |-> <<"f", "r">> ]

(***************************************************************************)
(* Characters.  Code is the code point, used by sorted() on paths.         *)
(***************************************************************************)
Chars ==
    [ digit |-> <<"0","1","2","3","4","5","6","7","8","9">>,
      upper |-> <<"A","B","C","D","E","F","G","H","I","J","K","L","M","N","O","P","Q","R","S","T","U","V","W","X","Y","Z">>,
      lower |-> <<"a","b","c","d","e","f","g","h","i","j","k","l","m","n","o","p","q","r","s","t","u","v","w","x","y","z">> ]

CharSet(kind) == {Chars[kind][i] : i \in 1..Len(Chars[kind])}

CodeTable ==
    [c \in {" ", "(", ")", "-", ".", "/", "_"} \cup CharSet("digit") \cup CharSet("upper") \cup CharSet("lower") |->
        CASE c = " " -> 32 [] c = "(" -> 40 [] c = ")" -> 41 [] c = "-" -> 45
          [] c = "." -> 46 [] c = "/" -> 47 [] c = "_" -> 95
          [] c \in CharSet("digit") -> 47 + (CHOOSE i \in 1..10 : Chars.digit[i] = c)
          [] c \in CharSet("upper") -> 64 + (CHOOSE i \in 1..26 : Chars.upper[i] = c)
          [] c \in CharSet("lower") -> 96 + (CHOOSE i \in 1..26 : Chars.lower[i] = c)]

Code(c) == CodeTable[c]

\* str.lower() on one character
LowerChar(c) ==
    IF \E i \in 1..26 : Chars.upper[i] = c
    THEN Chars.lower[CHOOSE i \in 1..26 : Chars.upper[i] = c] ELSE c

Lower(s) == [i \in 1..Len(s) |-> LowerChar(s[i])]

Cat(s, t) == s \o t

EndsWith(s, t) ==
    /\ Len(s) >= Len(t)
    /\ SubSeq(s, Len(s) - Len(t) + 1, Len(s)) = t

\* str.rfind(c) + 1: the last position of c in s, 0 when there is none
RFind(s, c) ==
    LET P == {i \in 1..Len(s) : s[i] = c}
    IN  IF P = {} THEN 0 ELSE CHOOSE i \in P : \A j \in P : j <= i

\* str.replace(old, new) for a one-character old and a string new
ReplaceChar(s, old, new) ==
    LET R[i \in 0..Len(s)] ==
            IF i = 0 THEN <<>>
            ELSE R[i-1] \o (IF s[i] = old THEN new ELSE <<s[i]>>)
    IN  R[Len(s)]

\* str.replace(old, new) where old occurs in s only as a suffix, if at all
ReplaceSuffix(s, old, new) ==
    IF EndsWith(s, old) THEN Cat(SubSeq(s, 1, Len(s) - Len(old)), new) ELSE s

\* os.path.basename
Basename(p) == SubSeq(p, RFind(p, "/") + 1, Len(p))

\* pathlib.PurePath.suffix and .stem of a file name
Suffix(name) ==
    LET i == RFind(name, ".")
    IN  IF 1 < i /\ i < Len(name) THEN SubSeq(name, i, Len(name)) ELSE <<>>

Stem(name) ==
    LET i == RFind(name, ".")
    IN  IF 1 < i /\ i < Len(name) THEN SubSeq(name, 1, i - 1) ELSE name

\* str(n) for a natural number n
RECURSIVE IntStr(_)
IntStr(n) == IF n < 10 THEN <<Chars.digit[n + 1]>> ELSE IntStr(n \div 10) \o <<Chars.digit[(n % 10) + 1]>>

\* the order of Python's < on strings
RECURSIVE LexLess(_, _)
LexLess(s, t) ==
    IF s = <<>> THEN t # <<>>
    ELSE IF t = <<>> THEN FALSE
    ELSE IF Head(s) = Head(t) THEN LexLess(Tail(s), Tail(t))
    ELSE Code(Head(s)) < Code(Head(t))

RECURSIVE SetToSeq(_)
SetToSeq(S) ==
    IF S = {} THEN <<>>
    ELSE LET x == CHOOSE y \in S : TRUE IN <<x>> \o SetToSeq(S \ {x})

\* sorted(S) for a set of names
Sorted(S) == SortSeq(SetToSeq(S), LexLess)

Reverse(q) == [i \in 1..Len(q) |-> q[Len(q) + 1 - i]]

\* The orders in which os.listdir, Path.glob and os.walk may return the
\* names of a directory: unspecified in Python; ascending and descending
\* name order stand for them.
Listings(S) == {Sorted(S), Reverse(Sorted(S))}

Range(q) == {q[i] : i \in 1..Len(q)}

\* all subsets of S with at most k elements
RECURSIVE KSubsets(_, _)
KSubsets(S, k) ==
    IF k = 0 THEN {{}}
    ELSE LET P == KSubsets(S, k - 1) IN P \cup {p \cup {x} : p \in P, x \in S}

(***************************************************************************)
(* The fixed file lists and reading orders.                                *)
(***************************************************************************)
Html(stem) == Cat(stem, Lit.d_html)

Xhtml(stem) == Cat(stem, Lit.d_xhtml)

\* create_epub_complete.py
HTML_FILES_ORDER ==
    << Html(Lit.index), Html(Lit.copyright), Html(Lit.dedication), Html(Lit.toc),
       Html(Lit.introduction), Html(Lit.part1), Html(Lit.chapter1), Html(Lit.chapter2),
       Html(Lit.part2), Html(Lit.chapter3), Html(Lit.part3), Html(Lit.chapter4),
       Html(Lit.chapter5), Html(Lit.part4), Html(Lit.chapter6), Html(Lit.chapter7),
       Html(Lit.chapter8), Html(Lit.conclusion), Html(Lit.other_h_books),
       Html(Lit.appendix), Html(Lit.bibliography) >>

SPINE_ORDER ==
    << Lit.cover, Lit.copyright, Lit.dedication, Lit.toc, Lit.introduction, Lit.part1,
       Lit.chapter1, Lit.chapter2, Lit.part2, Lit.chapter3, Lit.part3, Lit.chapter4,
       Lit.chapter5, Lit.part4, Lit.chapter6, Lit.chapter7, Lit.chapter8, Lit.conclusion,
       Lit.other_h_books, Lit.appendix, Lit.bibliography >>

\* create_both_epubs.py
FILES_TO_PROCESS ==
    << Html(Lit.copyright), Html(Lit.dedication), Html(Lit.toc),
       Html(Lit.introduction), Html(Lit.part1), Html(Lit.chapter1), Html(Lit.chapter2),
       Html(Lit.part2), Html(Lit.chapter3), Html(Lit.part3), Html(Lit.chapter4),
       Html(Lit.chapter5), Html(Lit.part4), Html(Lit.chapter6), Html(Lit.chapter7),
       Html(Lit.chapter8), Html(Lit.conclusion), Html(Lit.other_h_books),
       Html(Lit.appendix), Html(Lit.bibliography), Html(Lit.acknowledgments) >>

CORRECT_SPINE_ORDER ==
    << Lit.cover, Lit.copyright, Lit.dedication, Lit.toc, Lit.introduction, Lit.part1,
       Lit.chapter1, Lit.chapter2, Lit.part2, Lit.chapter3, Lit.part3, Lit.chapter4,
       Lit.chapter5, Lit.part4, Lit.chapter6, Lit.chapter7, Lit.chapter8, Lit.conclusion,
       Lit.other_h_books, Lit.appendix, Lit.bibliography, Lit.acknowledgments >>

\* create_kdp_epub.py: fix_spine_order
correct_order ==
    << Lit.cover, Lit.copyright, Lit.toc, Lit.introduction, Lit.part1,
       Lit.chapter1, Lit.chapter2, Lit.part2, Lit.chapter3, Lit.part3, Lit.chapter4,
       Lit.chapter5, Lit.part4, Lit.chapter6, Lit.chapter7, Lit.chapter8, Lit.conclusion,
       Lit.other_h_books, Lit.appendix, Lit.bibliography >>

\* create_final_epub.py: fix_spine_order
final_correct_order ==
    << Lit.cover, Lit.copyright, Lit.toc, Lit.introduction, Lit.part1,
       Lit.chapter1, Lit.chapter2, Lit.part2, Lit.chapter3, Lit.part3, Lit.chapter4,
       Lit.chapter5, Lit.part4, Lit.chapter6, Lit.chapter7, Lit.chapter8, Lit.conclusion,
       Lit.other_h_books, Lit.appendix, Lit.bibliography >>

\* create_kdp_epub.py: create_kdp_content_opf
kdp_correct_order ==
    << Lit.cover, Lit.copyright, Lit.toc, Lit.introduction, Lit.part1,
       Lit.chapter1, Lit.chapter2, Lit.part2, Lit.chapter3, Lit.part3, Lit.chapter4,
       Lit.chapter5, Lit.part4, Lit.chapter6, Lit.chapter7, Lit.chapter8, Lit.conclusion,
       Lit.other_h_books, Lit.appendix, Lit.bibliography >>

image_extensions == {Lit.d_jpg, Lit.d_jpeg, Lit.d_png, Lit.d_gif, Lit.d_svg}

\* any(file.lower().endswith(ext) for ext in image_extensions)
IsImageName(file) == \E ext \in image_extensions : EndsWith(Lower(file), ext)

(***************************************************************************)
(* File names and ids.                                                     *)
(***************************************************************************)
\* create_epub_complete.py: sanitize_filename
sanitize_filename(filename) ==
    ReplaceChar(ReplaceChar(ReplaceChar(filename, " ", <<"-">>), "(", <<>>), ")", <<>>)

IdChars == CharSet("lower") \cup CharSet("upper") \cup CharSet("digit") \cup {"_"}

\* re.sub(r'[^a-zA-Z0-9_]', '_', s)
SafeId(s) == [i \in 1..Len(s) |-> IF s[i] \in IdChars THEN s[i] ELSE "_"]

\* create_both_epubs.py: stem.replace('-', '_').replace(' ', '_')
BothImageBaseId(stem) == ReplaceChar(ReplaceChar(stem, "-", <<"_">>), " ", <<"_">>)

\* the loop `while file_id in used_ids: file_id = f"{base_id}_{counter}"`
RECURSIVE UniqueIdFrom(_, _, _, _)
UniqueIdFrom(file_id, base_id, counter, used_ids) ==
    IF file_id \in used_ids
    THEN UniqueIdFrom(Cat(base_id, Cat(<<"_">>, IntStr(counter))), base_id, counter + 1, used_ids)
    ELSE file_id

UniqueId(base_id, used_ids) == UniqueIdFrom(base_id, base_id, 1, used_ids)

\* create_epub_complete.py: the media type of an image, "" when the file is skipped
CompleteMediaType(name) ==
    LET ext == Lower(Suffix(name))
    IN  IF ext \in {Lit.d_jpg, Lit.d_jpeg} THEN "image/jpeg"
        ELSE IF ext = Lit.d_png THEN "image/png"
        ELSE IF ext = Lit.d_gif THEN "image/gif"
        ELSE IF ext = Lit.d_svg THEN "image/svg+xml"
        ELSE ""

\* create_both_epubs.py and create_kdp_epub.py: the media type of an image
BothMediaType(name) ==
    LET ext == Lower(Suffix(name))
    IN  IF ext \in {Lit.d_jpg, Lit.d_jpeg} THEN "image/jpeg"
        ELSE IF ext = Lit.d_png THEN "image/png"
        ELSE "image/png"

(***************************************************************************)
(* Files of a packaging tree, and the package document.                    *)
(***************************************************************************)
E(dir, name) == [dir |-> dir, name |-> name]

\* the files every packaging tree has
Entry ==
    [ mimetype |-> E("", Lit.mimetype),
      container |-> E("META-INF", Lit.container_d_xml),
      style |-> E("OEBPS/Styles", Lit.style_d_css),
      cover |-> E("OEBPS", Lit.cover_d_xhtml),
      opf |-> E("OEBPS", Lit.content_d_opf),
      ncx |-> E("OEBPS", Lit.toc_d_ncx),
      nav |-> E("OEBPS", Lit.nav_d_xhtml) ]

\* the names of the files of directory dir in a tree (a set of entries)
NamesIn(files, dir) == {e.name : e \in {f \in files : f.dir = dir}}

\* Path(dir).glob('*.xhtml')
GlobXhtml(files, dir) == {n \in NamesIn(files, dir) : EndsWith(n, Lit.d_xhtml)}

Item(id, hdir, hname, media, props) ==
    [id |-> id, href |-> E(hdir, hname), media |-> media, props |-> props]

\* dict.get(key, default)
Get(m, key, default) == IF key \in DOMAIN m THEN m[key] ELSE default

\* the descriptive elements every create_*content_opf writes from the metadata
DcFields(metadata) ==
    [ title     |-> Get(metadata, "title", Lit.Untitled),
      creator   |-> Get(metadata, "author", Lit.Unknown),
      publisher |-> Get(metadata, "publisher", Lit.Unknown_s_Publisher),
      date      |-> Get(metadata, "publication_date", Lit.y2025),
      language  |-> Get(metadata, "language", Lit.en) ]

\* manifest items of the documents of Text/, in the order given; the id is the
\* stem, passed through re.sub when safe
RECURSIVE TextItems(_, _)
TextItems(names, safe) ==
    IF names = <<>> THEN <<>>
    ELSE LET n == Head(names)
             id == IF safe THEN SafeId(Stem(n)) ELSE Stem(n)
         IN  <<Item(id, "Text", n, "application/xhtml+xml", "")>> \o TextItems(Tail(names), safe)

(***************************************************************************)
(* create_epub_complete.py: create_content_opf                             *)
(***************************************************************************)
CompleteReservedIds == {Lit.cover, Lit.cover_u_image, Lit.ncx, Lit.nav, Lit.css}

\* the loop over sorted(image_files)
RECURSIVE CompleteImageItems(_, _, _)
CompleteImageItems(names, used_ids, cover_filename) ==
    IF names = <<>> THEN <<>>
    ELSE LET n == Head(names)
             media_type == CompleteMediaType(n)
             file_id == UniqueId(SafeId(Stem(n)), used_ids)
         IN  IF media_type = "" THEN CompleteImageItems(Tail(names), used_ids, cover_filename)
             ELSE << IF n = cover_filename
                     THEN Item(Lit.cover_u_image, "images", n, media_type, "cover-image")
                     ELSE Item(file_id, "images", n, media_type, "") >>
                  \o CompleteImageItems(Tail(names), used_ids \cup {file_id}, cover_filename)

CompleteManifestItems(files, metadata) ==
    (IF Entry.cover \in files
     THEN <<Item(Lit.cover, "", Lit.cover_d_xhtml, "application/xhtml+xml", "")>> ELSE <<>>)
    \o TextItems(Sorted(GlobXhtml(files, "OEBPS/Text")), TRUE)
    \o CompleteImageItems(Sorted(NamesIn(files, "OEBPS/images")), CompleteReservedIds,
                          sanitize_filename(Basename(Get(metadata, "cover_image", Cat(Lit.cover, Lit.d_jpg)))))

\* a spine taken from the sorted listing of Text/ instead of the declared order
CompleteSpineItems_fromListing(order, files) ==
    (IF Entry.cover \in files THEN <<Lit.cover>> ELSE <<>>)
    \o LET names == Sorted(GlobXhtml(files, "OEBPS/Text"))
       IN  [i \in 1..Len(names) |-> SafeId(Stem(names[i]))]

\* the loop over SPINE_ORDER
RECURSIVE CompleteSpineItems(_, _)
CompleteSpineItems(order, files) ==
    IF order = <<>> THEN <<>>
    ELSE LET item_id == Head(order)
         IN  (IF item_id = Lit.cover /\ Entry.cover \in files THEN <<Lit.cover>>
              ELSE IF E("OEBPS/Text", Xhtml(item_id)) \in files THEN <<SafeId(item_id)>>
              ELSE <<>>)
             \o CompleteSpineItems(Tail(order), files)

CompleteContentOpf(files, metadata) ==
    [ dc       |-> DcFields(metadata),
      cover    |-> Lit.cover_u_image,
      manifest |-> << Item(Lit.ncx, "", Lit.toc_d_ncx, "application/x-dtbncx+xml", ""),
                      Item(Lit.nav, "", Lit.nav_d_xhtml, "application/xhtml+xml", "nav"),
                      Item(Lit.css, "Styles", Lit.style_d_css, "text/css", "") >>
                   \o CompleteManifestItems(files, metadata),
      spine    |-> CompleteSpineItems(SPINE_ORDER, files),
      spineTag |-> TRUE ]

(***************************************************************************)
(* create_both_epubs.py: create_content_opf                                *)
(***************************************************************************)
\* the loop over image_files (in listing order); baseOf makes the base id
RECURSIVE ListedImageItems(_, _, _, _, _)
ListedImageItems(names, used_ids, cover_filename, hdir, replaceChars) ==
    IF names = <<>> THEN <<>>
    ELSE LET n == Head(names)
             base_id == IF replaceChars THEN BothImageBaseId(Stem(n)) ELSE Stem(n)
             file_id == UniqueId(base_id, used_ids)
         IN  IF n = cover_filename
             THEN ListedImageItems(Tail(names), used_ids, cover_filename, hdir, replaceChars)
             ELSE <<Item(file_id, hdir, n, BothMediaType(n), "")>>
                  \o ListedImageItems(Tail(names), used_ids \cup {file_id}, cover_filename, hdir, replaceChars)

BothSpineItems(order) == order

\* title_text: the title, followed by ": " and the subtitle when there is one
BothTitleText(metadata) ==
    IF Get(metadata, "subtitle", <<>>) # <<>>
    THEN Cat(Cat(Get(metadata, "title", Lit.Untitled), <<":", " ">>), metadata["subtitle"])
    ELSE Get(metadata, "title", Lit.Untitled)

BothContentOpf(files, metadata, image_files) ==
    LET cover_filename == Basename(Get(metadata, "cover_image", <<>>))
    IN  [ dc       |-> [DcFields(metadata) EXCEPT !.title = BothTitleText(metadata)],
          cover    |-> Lit.cover_h_image,
          manifest |-> <<Item(Lit.cover_h_image, "Images", cover_filename, "image/jpeg", "")>>
                       \o (IF Entry.cover \in files
                           THEN <<Item(Lit.cover, "", Lit.cover_d_xhtml, "application/xhtml+xml", "")>>
                           ELSE <<>>)
                       \o TextItems(Sorted(GlobXhtml(files, "OEBPS/Text")), FALSE)
                       \o ListedImageItems(image_files, {Lit.cover, Lit.cover_h_image},
                                           cover_filename, "Images", TRUE)
                       \o << Item(Lit.css, "Styles", Lit.style_d_css, "text/css", ""),
                             Item(Lit.ncx, "", Lit.toc_d_ncx, "application/x-dtbncx+xml", "") >>,
          spine    |-> BothSpineItems(CORRECT_SPINE_ORDER),
          spineTag |-> TRUE ]

(***************************************************************************)
(* create_kdp_epub.py: create_kdp_content_opf, fix_spine_order             *)
(***************************************************************************)
KdpContentOpf(files, metadata, image_files) ==
    LET cover_filename == Basename(Get(metadata, "cover_image", <<>>))
    IN  [ dc       |-> DcFields(metadata),
          cover    |-> Lit.cover_h_image,
          manifest |-> << Item(Lit.ncx, "", Lit.toc_d_ncx, "application/x-dtbncx+xml", ""),
                          Item(Lit.cover_h_image, "images", cover_filename, "image/jpeg", "") >>
                       \o (IF Entry.cover \in files
                           THEN <<Item(Lit.cover, "", Lit.cover_d_xhtml, "application/xhtml+xml", "")>>
                           ELSE <<>>)
                       \o TextItems(Sorted(GlobXhtml(files, "OEBPS/Text")), FALSE)
                       \o ListedImageItems(image_files, {Lit.cover, Lit.cover_h_image},
                                           cover_filename, "images", FALSE)
                       \o <<Item(Lit.css, "Styles", Lit.style_d_css, "text/css", "")>>,
          spine    |-> kdp_correct_order,
          spineTag |-> TRUE ]

\* fix_spine_order: the spine section replaced by the fixed order, when the
\* document has a '<spine toc="ncx">' ... '</spine>' section
KdpFixSpineOrder(doc) ==
    IF doc.spineTag THEN [doc EXCEPT !.spine = correct_order] ELSE doc

(***************************************************************************)
(* create_final_epub.py: fix_content_opf_duplicates                        *)
(***************************************************************************)
RECURSIVE FixDuplicateItems(_, _)
FixDuplicateItems(items, used_ids) ==
    IF items = <<>> THEN <<>>
    ELSE LET it == Head(items)
             file_id == UniqueId(it.id, used_ids)
         IN  <<[it EXCEPT !.id = file_id]>> \o FixDuplicateItems(Tail(items), used_ids \cup {file_id})

FixContentOpfDuplicates(doc) == [doc EXCEPT !.manifest = FixDuplicateItems(doc.manifest, {})]

\* create_final_epub.py: fix_spine_order
FinalFixSpineOrder(doc) ==
    IF doc.spineTag THEN [doc EXCEPT !.spine = final_correct_order] ELSE doc

(***************************************************************************)
(* The archive.                                                            *)
(***************************************************************************)
Stored(e) == [entry |-> e, compress |-> "stored"]

Deflated(e) == [entry |-> e, compress |-> "deflated"]

\* the files of directory dir, in listing order (rev: descending)
DirListing(files, dir, rev) ==
    IF rev THEN Reverse(Sorted(NamesIn(files, dir))) ELSE Sorted(NamesIn(files, dir))

RECURSIVE DeflateAll(_, _)
DeflateAll(dir, names) ==
    IF names = <<>> THEN <<>>
    ELSE <<Deflated(E(dir, Head(names)))>> \o DeflateAll(dir, Tail(names))

OebpsSubdirs == <<"OEBPS/Images", "OEBPS/Styles", "OEBPS/Text", "OEBPS/images">>

\* for root, dirs, files in os.walk(top): epub.write(file_path, arc_path)
RECURSIVE WalkDirs(_, _, _)
WalkDirs(files, dirs, rev) ==
    IF dirs = <<>> THEN <<>>
    ELSE DeflateAll(Head(dirs), DirListing(files, Head(dirs), rev)) \o WalkDirs(files, Tail(dirs), rev)

WalkOebps(files, rev) ==
    WalkDirs(files, <<"OEBPS">> \o (IF rev THEN Reverse(OebpsSubdirs) ELSE OebpsSubdirs), rev)

WalkMetaInf(files, rev) == WalkDirs(files, <<"META-INF">>, rev)

\* the writes of create_epub_file (create_epub_complete.py)
CompleteZipEntries(files, rev) ==
    <<Stored(Entry.mimetype)>> \o WalkMetaInf(files, rev) \o WalkOebps(files, rev)

\* an archive whose mimetype entry takes the archive's default compression
BothZipEntries_mimetypeDeflated(files, rev) ==
    <<Deflated(Entry.mimetype)>> \o <<Deflated(Entry.container)>> \o WalkOebps(files, rev)

\* the writes of create_epub_file (create_both_epubs.py)
BothZipEntries(files, rev) ==
    <<Stored(Entry.mimetype)>> \o <<Deflated(Entry.container)>> \o WalkOebps(files, rev)

\* the writes of create_kdp_epub
KdpZipEntries(files, rev) ==
    <<Stored(Entry.mimetype)>> \o <<Deflated(Entry.container)>> \o WalkOebps(files, rev)

\* the writes of create_epub (create_final_epub.py)
FinalZipEntries(files, rev) ==
    <<Stored(Entry.mimetype)>> \o WalkMetaInf(files, rev) \o WalkOebps(files, rev)

(***************************************************************************)
(* check_metadata.py: the pure parts.                                      *)
(***************************************************************************)
MiB == 1048576

MaxCoverMiB == 5

required_fields == <<"title", "author", "publisher", "publication_date", "cover_image">>

optional_fields == <<"subtitle", "tags", "description", "language", "isbn">>

\* check_required_metadata: the required fields that are absent or empty, in order
RECURSIVE MissingOf(_, _)
MissingOf(fields, metadata) ==
    IF fields = <<>> THEN <<>>
    ELSE (IF Head(fields) \notin DOMAIN metadata \/ metadata[Head(fields)] = <<>>
          THEN <<Head(fields)>> ELSE <<>>)
         \o MissingOf(Tail(fields), metadata)

check_required_metadata(metadata) == MissingOf(required_fields, metadata)

\* a file of the working directory: [dir, name, size]; its path
PathOf(f) == IF f.dir = "." THEN f.name ELSE Cat(<<"o","t","h","e","r","b","o","o","k","s","/">>, f.name)

\* os.path.exists and os.path.getsize
Exists(files, path) == \E f \in files : PathOf(f) = path

GetSize(files, path) == (CHOOSE f \in files : PathOf(f) = path).size

\* a size check that rejects a file of exactly the limit
check_cover_image_limitRejected(files, cover_path) ==
    IF cover_path = <<>> THEN [ok |-> FALSE, reason |-> "no-path"]
    ELSE IF ~Exists(files, cover_path) THEN [ok |-> FALSE, reason |-> "not-found"]
    ELSE IF GetSize(files, cover_path) >= MaxCoverMiB * MiB THEN [ok |-> FALSE, reason |-> "too-large"]
    ELSE IF Lower(Suffix(Basename(cover_path))) \notin {Lit.d_jpg, Lit.d_jpeg, Lit.d_png}
         THEN [ok |-> FALSE, reason |-> "unsupported-format"]
    ELSE [ok |-> TRUE, reason |-> "ok"]

\* check_cover_image: (ok, reason)
check_cover_image(files, cover_path) ==
    IF cover_path = <<>> THEN [ok |-> FALSE, reason |-> "no-path"]
    ELSE IF ~Exists(files, cover_path) THEN [ok |-> FALSE, reason |-> "not-found"]
    ELSE IF GetSize(files, cover_path) > MaxCoverMiB * MiB THEN [ok |-> FALSE, reason |-> "too-large"]
    ELSE IF Lower(Suffix(Basename(cover_path))) \notin {Lit.d_jpg, Lit.d_jpeg, Lit.d_png}
         THEN [ok |-> FALSE, reason |-> "unsupported-format"]
    ELSE [ok |-> TRUE, reason |-> "ok"]

(***************************************************************************)
(* Inputs: the working directory a script is started in.                   *)
(***************************************************************************)
\* how many source documents may be absent, how many image files there are
MaxAbsent == 1

MaxImages == 2

File(dir, name, size) == [dir |-> dir, name |-> name, size |-> size]

\* names of image files
Name ==
    [ cover_jpg |-> Cat(Lit.cover, Lit.d_jpg),
      big_png |-> Cat(<<"b","i","g">>, Lit.d_png),
      chapter1_png |-> Cat(Lit.chapter1, Lit.d_png),
      a_space_b_png |-> Cat(<<"a"," ","b">>, Lit.d_png),
      a_hyphen_b_png |-> Cat(<<"a","-","b">>, Lit.d_png),
      old_png |-> Cat(<<"o","l","d">>, Lit.d_png) ]

\* the image files that may lie in the working directory and in otherbooks/
ImagePool ==
    { File(".", Name.cover_jpg, 2 * MiB), File(".", Name.big_png, 6 * MiB),
      File(".", Name.chapter1_png, MiB), File(".", Name.a_space_b_png, MiB),
      File("otherbooks", Name.a_hyphen_b_png, MiB) }

AllHtml == Range(HTML_FILES_ORDER) \cup Range(FILES_TO_PROCESS)

\* the source documents that may be absent
AbsentPool == {Html(Lit.index), Html(Lit.dedication), Html(Lit.chapter2), Html(Lit.other_h_books)}

\* a file an unpacked book may hold in epub/META-INF beside container.xml
ExtraMetaInf == E("META-INF", <<"e", "n", "c", "r", "y", "p", "t", "i", "o", "n", ".", "x", "m", "l">>)

\* the source documents that may lack a body element
NoBodyPool == {Html(Lit.chapter1), Html(Lit.toc)}

FullMetadata ==
    [ title |-> <<"T">>, author |-> <<"A">>, publisher |-> <<"P">>,
      publication_date |-> Lit.y2025, cover_image |-> Name.cover_jpg, language |-> Lit.en ]

Without(m, key) == [k \in DOMAIN m \ {key} |-> m[k]]

\* the records book_metadata.json may hold when a packaging script starts
MetaChoices ==
    { FullMetadata,
      Without(FullMetadata, "publisher"),
      [FullMetadata EXCEPT !.cover_image = Name.big_png] }

Scripts == {"complete", "both", "kdp", "final"}

TreeNames == {"epub_build", "epub_gumroad", "epub_kdp", "epub"}

ArchiveNames == {"Gumroad", "KDP", "Final"}

NoDoc ==
    [ dc |-> DcFields(<<>>), cover |-> <<>>, manifest |-> <<>>, spine |-> <<>>, spineTag |-> FALSE ]

NoArchive == [exists |-> FALSE, entries |-> <<>>, doc |-> NoDoc]

\* what an earlier run of create_both_epubs.py left in epub_gumroad/ and epub_kdp/
StaleBothTree ==
    { Entry.mimetype, Entry.container, Entry.style, Entry.cover, Entry.opf, Entry.ncx,
      E("OEBPS/Text", Xhtml(Lit.toc)), E("OEBPS/Text", Xhtml(Lit.dedication)),
      E("OEBPS/Images", Name.old_png) }

\* what an earlier run of create_epub_complete.py left in epub_build/, had it been interrupted
StaleBuildTree ==
    { Entry.mimetype, Entry.container, Entry.style, Entry.cover,
      E("OEBPS/Text", Xhtml(Lit.toc)), E("OEBPS/Text", Xhtml(Lit.dedication)),
      E("OEBPS/images", Name.old_png) }

\* an archive left by an earlier run
StaleArchive ==
    [ exists |-> TRUE,
      entries |-> <<Stored(Entry.mimetype), Deflated(Entry.container), Deflated(E("OEBPS/Text", Xhtml(Lit.toc)))>>,
      doc |-> NoDoc ]

\* epub/: the tree the conversion step leaves for create_kdp_epub.py and
\* create_final_epub.py, made from the source documents and images present
EpubTreeOf(docs, files) ==
    { Entry.mimetype, Entry.container, Entry.style, Entry.ncx, Entry.nav }
    \cup (IF Html(Lit.index) \in docs THEN {Entry.cover} ELSE {})
    \cup {E("OEBPS/Text", ReplaceSuffix(d, Lit.d_html, Lit.d_xhtml)) : d \in docs \ {Html(Lit.index)}}
    \cup {E("OEBPS/images", f.name) : f \in {g \in files : g.dir = "."}}

\* the package document that step left in epub/: the documents in name order
EpubDocOf(docs, files, tag) ==
    LET names == Sorted({ReplaceSuffix(d, Lit.d_html, Lit.d_xhtml) : d \in docs \ {Html(Lit.index)}})
        items == TextItems(names, FALSE)
    IN  [ dc |-> DcFields(FullMetadata), cover |-> Lit.cover_h_image,
          manifest |-> items
                       \o ListedImageItems(Sorted({f.name : f \in {g \in files : g.dir = "."}}),
                                           {}, <<>>, "images", FALSE),
          spine |-> [i \in 1..Len(items) |-> items[i].id],
          spineTag |-> tag ]

VARIABLES
    script,        \* the entry point that runs
    pc,            \* its position
    build,         \* the version being built: "Gumroad", "KDP" or ""
    metaFile,      \* book_metadata.json: "json", "none" (absent), "bad" (not JSON), "txt"
    persisted,     \* the record in book_metadata.json
    metadata,      \* the record in memory (<<>>: None or empty)
    srcDocs,       \* the HTML files of the working directory
    noBody,        \* those of them that have no body element
    printed,           \* the lines the conversion loop printed: [msg, file]
    disk,          \* its image files, and those of otherbooks/
    dirs,          \* the packaging trees that exist
    tree,          \* the files of each packaging tree
    opf,           \* the package document of each tree
    archive,       \* the archives
    epubcheck,     \* the values run_epubcheck returned
    result,        \* what main returned: "none", "True", "False", "crash"
    initialRecord, \* check_metadata: the record book_metadata.json held at the start
    prompted,      \* check_metadata: the input() calls made, in order, with the answers
    new_metadata,  \* check_metadata: the record prompt_for_missing_metadata builds
    coverCheck,    \* check_metadata: what check_cover_image returned
    call,          \* a function applied on its own: its arguments
    returned       \* and what it returned

vars == << script, pc, build, metaFile, persisted, metadata, srcDocs, noBody, printed, disk, dirs, tree,
           opf, archive, epubcheck, result, initialRecord, prompted, new_metadata, coverCheck,
           call, returned >>

callVars == << call, returned >>

metaVars == << initialRecord, prompted, new_metadata, coverCheck, callVars >>

NoCoverCheck == [ok |-> FALSE, reason |-> "none"]

Init ==
    \E sc \in Scripts, mf \in {"json", "none", "bad"}, m \in MetaChoices, earlier \in BOOLEAN,
       absent \in KSubsets(AbsentPool, MaxAbsent), files \in KSubsets(ImagePool, MaxImages),
       tag \in BOOLEAN, bodyless \in SUBSET NoBodyPool, extra \in SUBSET {ExtraMetaInf} :
        /\ extra # {} => (sc \in {"kdp", "final"} /\ earlier /\ m = FullMetadata
                           /\ absent = {} /\ files = {})
        /\ bodyless # {} => (sc \in {"complete", "both"} /\ mf = "json" /\ m = FullMetadata
                              /\ absent = {} /\ files = {})
        /\ mf # "json" => (m = FullMetadata /\ ~earlier /\ absent = {} /\ files = {})
        /\ m # FullMetadata => (~earlier /\ absent = {})
        /\ ~(sc = "final" /\ earlier) => tag
        /\ script = sc
        /\ pc = "start"
        /\ build = ""
        /\ metaFile = mf
        /\ persisted = IF mf = "json" THEN m ELSE <<>>
        /\ metadata = <<>>
        /\ srcDocs = AllHtml \ absent
        /\ noBody = bodyless
        /\ printed = <<>>
        /\ disk = files
        /\ dirs = IF earlier THEN TreeNames ELSE {}
        /\ tree = [t \in TreeNames |->
                     IF ~earlier THEN {}
                     ELSE IF t = "epub" THEN EpubTreeOf(AllHtml \ absent, files) \cup {Entry.opf} \cup extra
                     ELSE IF t = "epub_build" THEN StaleBuildTree ELSE StaleBothTree]
        /\ opf = [t \in TreeNames |->
                    IF earlier /\ t = "epub" THEN EpubDocOf(AllHtml \ absent, files, tag) ELSE NoDoc]
        /\ archive = [a \in ArchiveNames |-> IF earlier THEN StaleArchive ELSE NoArchive]
        /\ epubcheck = <<>>
        /\ result = "none"
        /\ initialRecord = <<>>
        /\ prompted = <<>>
        /\ new_metadata = <<>>
        /\ coverCheck = NoCoverCheck
        /\ call = <<>>
        /\ returned = <<>>

(***************************************************************************)
(* create_epub_complete.py                                                 *)
(***************************************************************************)
Done(r) == pc' = "done" /\ result' = r

\* main: load_metadata and the check `if not metadata`
CompleteLoadMetadata ==
    /\ script = "complete" /\ pc = "start"
    /\ IF metaFile = "none" THEN
            Done("False") /\ UNCHANGED <<metadata, build>>
       ELSE IF metaFile = "bad" THEN
            Done("crash") /\ UNCHANGED <<metadata, build>>
       ELSE IF DOMAIN persisted = {} THEN
            Done("False") /\ metadata' = persisted /\ UNCHANGED build
       ELSE /\ metadata' = persisted
            /\ build' = "Gumroad"
            /\ pc' = "setup"
            /\ UNCHANGED result
    /\ UNCHANGED <<script, metaFile, persisted, srcDocs, noBody, printed, disk, dirs, tree, opf, archive,
                   epubcheck, metaVars>>

\* create_gumroad_epub / create_amazon_kdp_epub: reset_book_id, cleanup,
\* create_directory_structure, create_mimetype, create_container_xml, create_css_file
CompleteSetup ==
    /\ script = "complete" /\ pc = "setup"
    /\ dirs' = dirs \cup {"epub_build"}
    /\ tree' = [tree EXCEPT !["epub_build"] = {Entry.mimetype, Entry.container, Entry.style}]
    /\ opf' = [opf EXCEPT !["epub_build"] = NoDoc]
    /\ pc' = "convert"
    /\ UNCHANGED <<script, build, metaFile, persisted, metadata, srcDocs, noBody, printed, disk, archive,
                   epubcheck, result, metaVars>>

\* a loop that ends at the first file that does not exist
CompleteConverted_stopAtMissing(docs) ==
    { IF HTML_FILES_ORDER[i] = Html(Lit.index) THEN Entry.cover
      ELSE E("OEBPS/Text", ReplaceSuffix(HTML_FILES_ORDER[i], Lit.d_html, Lit.d_xhtml)) :
      i \in {j \in 1..Len(HTML_FILES_ORDER) : \A k \in 1..j : HTML_FILES_ORDER[k] \in docs} }

\* convert_all_html_files: the output file of each source file that exists;
\* a document without a body element is converted from the whole document
CompleteConverted(docs) ==
    { IF d = Html(Lit.index) THEN Entry.cover
      ELSE E("OEBPS/Text", ReplaceSuffix(d, Lit.d_html, Lit.d_xhtml)) :
      d \in {x \in Range(HTML_FILES_ORDER) : x \in docs} }

\* convert_all_html_files: the lines printed, in the order of HTML_FILES_ORDER
CompleteConvertLog(order, docs) ==
    [i \in 1..Len(order) |->
        [msg |-> IF order[i] \in docs THEN "converted" ELSE "not-found", file |-> order[i]]]

CompleteConvertAll ==
    /\ script = "complete" /\ pc = "convert"
    /\ tree' = [tree EXCEPT !["epub_build"] = @ \cup CompleteConverted(srcDocs)]
    /\ printed' = printed \o CompleteConvertLog(HTML_FILES_ORDER, srcDocs)
    /\ pc' = "copy"
    /\ UNCHANGED <<script, build, metaFile, persisted, metadata, srcDocs, noBody, disk, dirs, opf,
                   archive, epubcheck, result, metaVars>>

\* copy_images before its loops: copied_count, copied_files, and the calls
\* of shutil.copy2 made so far
NoCopies == [copied_count |-> 0, copied_files |-> {}, copies |-> <<>>]

\* a loop that copies every image file it lists
RECURSIVE CompleteCopyLoop_always(_, _, _)
CompleteCopyLoop_always(names, dir, st) ==
    IF names = <<>> THEN st
    ELSE LET dst_filename == sanitize_filename(Head(names))
         IN  IF IsImageName(Head(names))
             THEN CompleteCopyLoop_always(Tail(names), dir,
                      [ copied_count |-> st.copied_count + 1,
                        copied_files |-> st.copied_files \cup {dst_filename},
                        copies |-> Append(st.copies, [dst |-> dst_filename, src |-> E(dir, Head(names))]) ])
             ELSE CompleteCopyLoop_always(Tail(names), dir, st)

\* copy_images: one loop over the listing of a directory
RECURSIVE CompleteCopyLoop(_, _, _)
CompleteCopyLoop(names, dir, st) ==
    IF names = <<>> THEN st
    ELSE LET dst_filename == sanitize_filename(Head(names))
         IN  IF IsImageName(Head(names)) /\ dst_filename \notin st.copied_files
             THEN CompleteCopyLoop(Tail(names), dir,
                      [ copied_count |-> st.copied_count + 1,
                        copied_files |-> st.copied_files \cup {dst_filename},
                        copies |-> Append(st.copies, [dst |-> dst_filename, src |-> E(dir, Head(names))]) ])
             ELSE CompleteCopyLoop(Tail(names), dir, st)

\* copy_images: the root directory, then otherbooks
copy_images(root, other) ==
    CompleteCopyLoop(other, "otherbooks", CompleteCopyLoop(root, ".", NoCopies))

DiskNames(files, dir) == {f.name : f \in {g \in files : g.dir = dir}}

CompleteCopyImages ==
    /\ script = "complete" /\ pc = "copy"
    /\ \E root \in Listings(DiskNames(disk, ".")), other \in Listings(DiskNames(disk, "otherbooks")) :
          LET copied == copy_images(root, other).copies
          IN  tree' = [tree EXCEPT !["epub_build"] =
                          @ \cup {E("OEBPS/images", copied[i].dst) : i \in 1..Len(copied)}]
    /\ pc' = "opf"
    /\ UNCHANGED <<script, build, metaFile, persisted, metadata, srcDocs, noBody, printed, disk, dirs, opf,
                   archive, epubcheck, result, metaVars>>

CompleteCreateContentOpf ==
    /\ script = "complete" /\ pc = "opf"
    /\ opf' = [opf EXCEPT !["epub_build"] = CompleteContentOpf(tree["epub_build"], metadata)]
    /\ tree' = [tree EXCEPT !["epub_build"] = @ \cup {Entry.opf}]
    /\ pc' = "ncx"
    /\ UNCHANGED <<script, build, metaFile, persisted, metadata, srcDocs, noBody, printed, disk, dirs,
                   archive, epubcheck, result, metaVars>>

CompleteCreateTocNcx ==
    /\ script = "complete" /\ pc = "ncx"
    /\ tree' = [tree EXCEPT !["epub_build"] = @ \cup {Entry.ncx}]
    /\ pc' = "nav"
    /\ UNCHANGED <<script, build, metaFile, persisted, metadata, srcDocs, noBody, printed, disk, dirs, opf,
                   archive, epubcheck, result, metaVars>>

CompleteCreateNavXhtml ==
    /\ script = "complete" /\ pc = "nav"
    /\ tree' = [tree EXCEPT !["epub_build"] = @ \cup {Entry.nav}]
    /\ pc' = "zip"
    /\ UNCHANGED <<script, build, metaFile, persisted, metadata, srcDocs, noBody, printed, disk, dirs, opf,
                   archive, epubcheck, result, metaVars>>

\* create_epub_file: the existing archive removed, the new one written
CompleteCreateEpubFile ==
    /\ script = "complete" /\ pc = "zip"
    /\ \E rev \in BOOLEAN :
          archive' = [archive EXCEPT ![build] =
                         [ exists |-> TRUE,
                           entries |-> CompleteZipEntries(tree["epub_build"], rev),
                           doc |-> opf["epub_build"] ]]
    /\ IF build = "Gumroad" THEN build' = "KDP" /\ pc' = "setup"
                            ELSE build' = "" /\ pc' = "cleanup"
    /\ UNCHANGED <<script, metaFile, persisted, metadata, srcDocs, noBody, printed, disk, dirs, tree, opf,
                   epubcheck, result, metaVars>>

\* cleanup: shutil.rmtree('epub_build')
CompleteCleanup ==
    /\ script = "complete" /\ pc = "cleanup"
    /\ dirs' = dirs \ {"epub_build"}
    /\ tree' = [tree EXCEPT !["epub_build"] = {}]
    /\ opf' = [opf EXCEPT !["epub_build"] = NoDoc]
    /\ pc' = "epubcheck"
    /\ UNCHANGED <<script, build, metaFile, persisted, metadata, srcDocs, noBody, printed, disk, archive,
                   epubcheck, result, metaVars>>

\* run_epubcheck(epub_file): what the validator reports, and the value returned
ValidatorOutcomes == {"skipped", "passed", "issues", "timeout"}

\* create_epub_complete.py: run_epubcheck prints the outcome and returns nothing
CompleteEpubcheckValue(outcome) == "None"

\* main: run_epubcheck on each archive; then main returns True
CompleteRunEpubcheck ==
    /\ script = "complete" /\ pc = "epubcheck"
    /\ \E outcome \in ValidatorOutcomes :
          epubcheck' = Append(epubcheck, CompleteEpubcheckValue(outcome))
    /\ IF Len(epubcheck) = 1 THEN Done("True") ELSE UNCHANGED <<pc, result>>
    /\ UNCHANGED <<script, build, metaFile, persisted, metadata, srcDocs, noBody, printed, disk, dirs, tree,
                   opf, archive, metaVars>>

(***************************************************************************)
(* create_both_epubs.py                                                    *)
(***************************************************************************)
\* base_dir = f'epub_{version_name.lower()}'
BaseDir(version_name) == IF version_name = "Gumroad" THEN "epub_gumroad" ELSE "epub_kdp"

\* main: load_metadata and the check `if not metadata`
BothLoadMetadata ==
    /\ script = "both" /\ pc = "start"
    /\ IF metaFile = "none" THEN
            Done("False") /\ UNCHANGED <<metadata, build>>
       ELSE IF metaFile = "bad" THEN
            Done("crash") /\ UNCHANGED <<metadata, build>>
       ELSE IF DOMAIN persisted = {} THEN
            Done("False") /\ metadata' = persisted /\ UNCHANGED build
       ELSE /\ metadata' = persisted
            /\ build' = "Gumroad"
            /\ pc' = "dirs"
            /\ UNCHANGED result
    /\ UNCHANGED <<script, metaFile, persisted, srcDocs, noBody, printed, disk, dirs, tree, opf, archive,
                   epubcheck, metaVars>>

\* ensure_directory_structure: nothing is removed; mimetype written if absent
BothEnsureDirectoryStructure ==
    /\ script = "both" /\ pc = "dirs"
    /\ dirs' = dirs \cup {BaseDir(build)}
    /\ tree' = [tree EXCEPT ![BaseDir(build)] = @ \cup {Entry.mimetype, Entry.container}]
    /\ pc' = "styles"
    /\ UNCHANGED <<script, build, metaFile, persisted, metadata, srcDocs, noBody, printed, disk, opf, archive,
                   epubcheck, result, metaVars>>

BothCopyStylesFile ==
    /\ script = "both" /\ pc = "styles"
    /\ tree' = [tree EXCEPT ![BaseDir(build)] = @ \cup {Entry.style}]
    /\ pc' = "convert"
    /\ UNCHANGED <<script, build, metaFile, persisted, metadata, srcDocs, noBody, printed, disk, dirs, opf,
                   archive, epubcheck, result, metaVars>>

\* the loop over FILES_TO_PROCESS: the file convert_html_to_xhtml writes for
\* each source file that exists; it writes none for a document without a
\* body element
BothConverted(docs, bodyless) ==
    { E("OEBPS/Text", ReplaceSuffix(Basename(d), Lit.d_html, Lit.d_xhtml)) :
      d \in {x \in Range(FILES_TO_PROCESS) : x \in docs /\ x \notin bodyless} }

\* the lines the loop prints, in the order of FILES_TO_PROCESS
BothConvertLog(order, docs) ==
    [i \in 1..Len(order) |->
        [msg |-> IF order[i] \in docs THEN "converting" ELSE "not-found", file |-> order[i]]]

BothConvert ==
    /\ script = "both" /\ pc = "convert"
    /\ tree' = [tree EXCEPT ![BaseDir(build)] = @ \cup BothConverted(srcDocs, noBody)]
    /\ printed' = printed \o BothConvertLog(FILES_TO_PROCESS, srcDocs)
    /\ pc' = "copy"
    /\ UNCHANGED <<script, build, metaFile, persisted, metadata, srcDocs, noBody, disk, dirs, opf,
                   archive, epubcheck, result, metaVars>>

\* a copy step that has not copied anything yet
BothCopied_none(files) == {}

\* copy_images('.', images_dir): every image of the working directory, under its own name
BothCopied(files) == {E("OEBPS/Images", n) : n \in {x \in DiskNames(files, ".") : IsImageName(x)}}

\* "Copy cover image specifically": the cover_image file, when the path is
\* not empty and the file exists
BothCoverCopied(files, cover_path) ==
    IF cover_path # <<>> /\ Exists(files, cover_path)
    THEN {E("OEBPS/Images", Basename(cover_path))} ELSE {}

BothCopyImages ==
    /\ script = "both" /\ pc = "copy"
    /\ tree' = [tree EXCEPT ![BaseDir(build)] =
                   @ \cup BothCopied(disk) \cup BothCoverCopied(disk, Get(metadata, "cover_image", <<>>))]
    /\ pc' = "cover"
    /\ UNCHANGED <<script, build, metaFile, persisted, metadata, srcDocs, noBody, printed, disk, dirs, opf,
                   archive, epubcheck, result, metaVars>>

BothCreateCoverPage ==
    /\ script = "both" /\ pc = "cover"
    /\ tree' = [tree EXCEPT ![BaseDir(build)] = @ \cup {Entry.cover}]
    /\ pc' = "opf"
    /\ UNCHANGED <<script, build, metaFile, persisted, metadata, srcDocs, noBody, printed, disk, dirs, opf,
                   archive, epubcheck, result, metaVars>>

\* create_content_opf, and the write of its result to OEBPS/content.opf
BothCreateContentOpf ==
    /\ script = "both" /\ pc = "opf"
    /\ \E image_files \in Listings(NamesIn(tree[BaseDir(build)], "OEBPS/Images")) :
          opf' = [opf EXCEPT ![BaseDir(build)] = BothContentOpf(tree[BaseDir(build)], metadata, image_files)]
    /\ tree' = [tree EXCEPT ![BaseDir(build)] = @ \cup {Entry.opf}]
    /\ pc' = "ncx"
    /\ UNCHANGED <<script, build, metaFile, persisted, metadata, srcDocs, noBody, printed, disk, dirs,
                   archive, epubcheck, result, metaVars>>

BothCreateTocNcx ==
    /\ script = "both" /\ pc = "ncx"
    /\ tree' = [tree EXCEPT ![BaseDir(build)] = @ \cup {Entry.ncx}]
    /\ pc' = "zip"
    /\ UNCHANGED <<script, build, metaFile, persisted, metadata, srcDocs, noBody, printed, disk, dirs, opf,
                   archive, epubcheck, result, metaVars>>

BothCreateEpubFile ==
    /\ script = "both" /\ pc = "zip"
    /\ \E rev \in BOOLEAN :
          archive' = [archive EXCEPT ![build] =
                         [ exists |-> TRUE,
                           entries |-> BothZipEntries(tree[BaseDir(build)], rev),
                           doc |-> opf[BaseDir(build)] ]]
    /\ pc' = "epubcheck"
    /\ UNCHANGED <<script, build, metaFile, persisted, metadata, srcDocs, noBody, printed, disk, dirs, tree,
                   opf, epubcheck, result, metaVars>>

\* create_both_epubs.py: run_epubcheck returns True when the validator is
\* absent or passes, False otherwise
BothEpubcheckValue(outcome) == IF outcome \in {"skipped", "passed"} THEN "True" ELSE "False"

\* run_epubcheck at the end of create_epub_version; after the second
\* version main returns gumroad_check and kdp_check
BothRunEpubcheck ==
    /\ script = "both" /\ pc = "epubcheck"
    /\ \E outcome \in ValidatorOutcomes :
          LET checks == Append(epubcheck, BothEpubcheckValue(outcome))
          IN  /\ epubcheck' = checks
              /\ IF build = "Gumroad"
                 THEN build' = "KDP" /\ pc' = "dirs" /\ UNCHANGED result
                 ELSE /\ build' = ""
                      /\ Done(IF checks[1] = "True" /\ checks[2] = "True" THEN "True" ELSE "False")
    /\ UNCHANGED <<script, metaFile, persisted, metadata, srcDocs, noBody, printed, disk, dirs, tree, opf,
                   archive, metaVars>>

(***************************************************************************)
(* create_kdp_epub.py                                                      *)
(***************************************************************************)
\* main: load_metadata and the check `if not metadata`
KdpLoadMetadata ==
    /\ script = "kdp" /\ pc = "start"
    /\ IF metaFile = "none" THEN
            Done("False") /\ UNCHANGED metadata
       ELSE IF metaFile = "bad" THEN
            Done("crash") /\ UNCHANGED metadata
       ELSE IF DOMAIN persisted = {} THEN
            Done("False") /\ metadata' = persisted
       ELSE /\ metadata' = persisted
            /\ pc' = "opf"
            /\ UNCHANGED result
    /\ UNCHANGED <<script, build, metaFile, persisted, srcDocs, noBody, printed, disk, dirs, tree, opf, archive,
                   epubcheck, metaVars>>

\* create_kdp_epub: the check for epub/, create_kdp_content_opf and the write of content.opf
KdpCreateContentOpf ==
    /\ script = "kdp" /\ pc = "opf"
    /\ IF "epub" \notin dirs THEN
            Done("False") /\ UNCHANGED <<opf, tree>>
       ELSE /\ \E image_files \in Listings(NamesIn(tree["epub"], "OEBPS/images")) :
                  opf' = [opf EXCEPT !["epub"] = KdpContentOpf(tree["epub"], metadata, image_files)]
            /\ tree' = [tree EXCEPT !["epub"] = @ \cup {Entry.opf}]
            /\ pc' = "spine"
            /\ UNCHANGED result
    /\ UNCHANGED <<script, build, metaFile, persisted, metadata, srcDocs, noBody, printed, disk, dirs, archive,
                   epubcheck, metaVars>>

KdpFixSpine ==
    /\ script = "kdp" /\ pc = "spine"
    /\ opf' = [opf EXCEPT !["epub"] = KdpFixSpineOrder(@)]
    /\ pc' = "zip"
    /\ UNCHANGED <<script, build, metaFile, persisted, metadata, srcDocs, noBody, printed, disk, dirs, tree,
                   archive, epubcheck, result, metaVars>>

\* create_kdp_epub: the archive written; it returns True
KdpWriteEpub ==
    /\ script = "kdp" /\ pc = "zip"
    /\ \E rev \in BOOLEAN :
          archive' = [archive EXCEPT !["KDP"] =
                         [ exists |-> TRUE,
                           entries |-> KdpZipEntries(tree["epub"], rev),
                           doc |-> opf["epub"] ]]
    /\ Done("True")
    /\ UNCHANGED <<script, build, metaFile, persisted, metadata, srcDocs, noBody, printed, disk, dirs, tree,
                   opf, epubcheck, metaVars>>

(***************************************************************************)
(* create_final_epub.py                                                    *)
(***************************************************************************)
\* create_epub: the existing archive removed; fix_content_opf_duplicates
FinalFixDuplicates ==
    /\ script = "final" /\ pc = "start"
    /\ archive' = [archive EXCEPT !["Final"] = NoArchive]
    /\ opf' = IF Entry.opf \in tree["epub"]
              THEN [opf EXCEPT !["epub"] = FixContentOpfDuplicates(@)] ELSE opf
    /\ pc' = "spine"
    /\ UNCHANGED <<script, build, metaFile, persisted, metadata, srcDocs, noBody, printed, disk, dirs, tree,
                   epubcheck, result, metaVars>>

FinalFixSpine ==
    /\ script = "final" /\ pc = "spine"
    /\ opf' = IF Entry.opf \in tree["epub"]
              THEN [opf EXCEPT !["epub"] = FinalFixSpineOrder(@)] ELSE opf
    /\ pc' = "zip"
    /\ UNCHANGED <<script, build, metaFile, persisted, metadata, srcDocs, noBody, printed, disk, dirs, tree,
                   archive, epubcheck, result, metaVars>>

\* create_epub: the archive written; without epub/mimetype the first write
\* raises and the archive is left with no entry
FinalWriteEpub ==
    /\ script = "final" /\ pc = "zip"
    /\ IF Entry.mimetype \in tree["epub"]
       THEN /\ \E rev \in BOOLEAN :
                  archive' = [archive EXCEPT !["Final"] =
                                 [ exists |-> TRUE,
                                   entries |-> FinalZipEntries(tree["epub"], rev),
                                   doc |-> opf["epub"] ]]
            /\ Done("None")
       ELSE /\ archive' = [archive EXCEPT !["Final"] = [exists |-> TRUE, entries |-> <<>>, doc |-> NoDoc]]
            /\ Done("crash")
    /\ UNCHANGED <<script, build, metaFile, persisted, metadata, srcDocs, noBody, printed, disk, dirs, tree,
                   opf, epubcheck, metaVars>>

(***************************************************************************)
(* check_metadata.py: main                                                 *)
(***************************************************************************)
\* how often the user may answer a required prompt with nothing, and how
\* many optional prompts the user may answer with a value
MaxEmptyAnswers == 1

MaxOptionalAnswers == 1

\* str.strip()
RECURSIVE LStrip(_)
LStrip(s) == IF s # <<>> /\ Head(s) = " " THEN LStrip(Tail(s)) ELSE s

Strip(s) == Reverse(LStrip(Reverse(LStrip(s))))

\* what the user may type at a prompt
RequiredInputs(field) ==
    {<<>>, <<" ">>, <<" ", "x">>} \cup (IF field = "cover_image" THEN {Name.cover_jpg} ELSE {})

OptionalInputs == {<<>>, <<"y", " ">>}

Prompt(field, value) == [field |-> field, answer |-> value]

\* dict.update, and the setting of one key
Update(m, n) == [k \in DOMAIN m \cup DOMAIN n |-> IF k \in DOMAIN n THEN n[k] ELSE m[k]]

Set(m, key, value) == [k \in DOMAIN m \cup {key} |-> IF k = key THEN value ELSE m[k]]

\* the first field of a sequence of fields that has no value yet
RECURSIVE FirstUnset(_, _)
FirstUnset(fields, m) ==
    IF Head(fields) \notin DOMAIN m THEN Head(fields) ELSE FirstUnset(Tail(fields), m)

CountPrompts(answers, fields, empty) ==
    Cardinality({i \in 1..Len(answers) : answers[i].field \in fields /\ ((answers[i].answer = <<>>) = empty)})

\* main: check_metadata_file, load_json_metadata and check_required_metadata
MetaLoad ==
    /\ script = "check_metadata" /\ pc = "start"
    /\ IF metaFile \in {"bad", "txt"} \/ (metaFile = "json" /\ DOMAIN persisted = {})
       THEN Done("False") /\ UNCHANGED metadata
       ELSE /\ metadata' = IF metaFile = "json" THEN persisted ELSE <<>>
            /\ pc' = IF check_required_metadata(metadata') # <<>> THEN "required" ELSE "cover"
            /\ UNCHANGED result
    /\ UNCHANGED <<script, build, metaFile, persisted, srcDocs, noBody, printed, disk, dirs, tree, opf, archive,
                   epubcheck, metaVars>>

\* prompt_for_missing_metadata: one input() of the loop over missing_fields
MetaPromptRequired ==
    /\ script = "check_metadata" /\ pc = "required"
    /\ LET missing_fields == check_required_metadata(metadata)
           field == FirstUnset(missing_fields, new_metadata)
       IN  \E raw \in RequiredInputs(field) :
              LET value == Strip(raw) IN
              /\ value = <<>> => CountPrompts(prompted, Range(required_fields), TRUE) < MaxEmptyAnswers
              /\ prompted' = Append(prompted, Prompt(field, value))
              /\ new_metadata' = IF value # <<>> THEN Set(new_metadata, field, value) ELSE new_metadata
              /\ pc' = IF Range(missing_fields) \subseteq DOMAIN new_metadata' THEN "optional" ELSE "required"
    /\ UNCHANGED <<script, build, metaFile, persisted, metadata, srcDocs, noBody, printed, disk, dirs, tree, opf,
                   archive, epubcheck, result, initialRecord, coverCheck, callVars>>

\* prompt_for_missing_metadata: one input() of the loop over optional_fields
MetaPromptOptional ==
    /\ script = "check_metadata" /\ pc = "optional"
    /\ LET asked == CountPrompts(prompted, Range(optional_fields), TRUE)
                    + CountPrompts(prompted, Range(optional_fields), FALSE)
           field == optional_fields[asked + 1]
       IN  \E raw \in OptionalInputs :
              LET value == Strip(raw) IN
              /\ value # <<>> => CountPrompts(prompted, Range(optional_fields), FALSE) < MaxOptionalAnswers
              /\ prompted' = Append(prompted, Prompt(field, value))
              /\ new_metadata' = IF value # <<>> THEN Set(new_metadata, field, value)
                                 ELSE IF field = "language" THEN Set(new_metadata, field, Lit.en)
                                 ELSE new_metadata
              /\ pc' = IF asked + 1 = Len(optional_fields) THEN "save" ELSE "optional"
    /\ UNCHANGED <<script, build, metaFile, persisted, metadata, srcDocs, noBody, printed, disk, dirs, tree, opf,
                   archive, epubcheck, result, initialRecord, coverCheck, callVars>>

\* main: metadata.update(new_metadata) and save_metadata
MetaSave ==
    /\ script = "check_metadata" /\ pc = "save"
    /\ metadata' = Update(metadata, new_metadata)
    /\ persisted' = metadata'
    /\ metaFile' = "json"
    /\ pc' = "cover"
    /\ UNCHANGED <<script, build, srcDocs, noBody, printed, disk, dirs, tree, opf, archive, epubcheck, result,
                   metaVars>>

\* main: the cover check, and the value main returns
MetaCheckCover ==
    /\ script = "check_metadata" /\ pc = "cover"
    /\ IF "cover_image" \in DOMAIN metadata
       THEN /\ coverCheck' = check_cover_image(disk, metadata["cover_image"])
            /\ Done(IF coverCheck'.ok THEN "True" ELSE "False")
       ELSE /\ Done("True")
            /\ UNCHANGED coverCheck
    /\ UNCHANGED <<script, build, metaFile, persisted, metadata, srcDocs, noBody, printed, disk, dirs, tree, opf,
                   archive, epubcheck, initialRecord, prompted, new_metadata, callVars>>

\* a complete record with a language and tags of its own
MetaBase ==
    [ title |-> <<"T">>, author |-> <<"A">>, publisher |-> <<"P">>,
      publication_date |-> Lit.y2025, cover_image |-> Name.cover_jpg, language |-> Lit.fr,
      tags |-> <<"t">> ]

Restrict(m, keys) == [k \in keys |-> m[k]]

\* the records book_metadata.json may hold when check_metadata.py starts:
\* any of the required fields absent, or one of them empty
MetaRecords ==
    {Restrict(MetaBase, DOMAIN MetaBase \ S) : S \in SUBSET Range(required_fields)}
    \cup {[MetaBase EXCEPT ![f] = <<>>] : f \in Range(required_fields)}
    \cup {Restrict(MetaBase, {"language"}), <<>>}

InitMeta ==
    \E mf \in {"json", "none", "bad", "txt"}, rec \in MetaRecords, size \in {2 * MiB, 6 * MiB} :
        /\ mf # "json" => (rec = <<>> /\ size = 2 * MiB)
        /\ script = "check_metadata"
        /\ pc = "start"
        /\ build = ""
        /\ metaFile = mf
        /\ persisted = rec
        /\ initialRecord = rec
        /\ metadata = <<>>
        /\ srcDocs = {}
        /\ noBody = {}
        /\ printed = <<>>
        /\ disk = {File(".", Name.cover_jpg, size)}
        /\ dirs = {}
        /\ tree = [t \in TreeNames |-> {}]
        /\ opf = [t \in TreeNames |-> NoDoc]
        /\ archive = [a \in ArchiveNames |-> NoArchive]
        /\ epubcheck = <<>>
        /\ result = "none"
        /\ prompted = <<>>
        /\ new_metadata = <<>>
        /\ coverCheck = NoCoverCheck
        /\ call = <<>>
        /\ returned = <<>>

NextMeta ==
    \/ MetaLoad
    \/ MetaPromptRequired
    \/ MetaPromptOptional
    \/ MetaSave
    \/ MetaCheckCover

SpecMeta == InitMeta /\ [][NextMeta]_vars

(***************************************************************************)
(* check_metadata.py: check_cover_image applied to any path and file.      *)
(***************************************************************************)
CoverNames ==
    { Name.cover_jpg, Cat(Lit.cover, <<".", "J", "P", "G">>), Cat(Lit.cover, Lit.d_jpeg),
      Cat(Lit.cover, <<".", "P", "n", "g">>), Cat(Lit.cover, Lit.d_gif), Lit.cover, Lit.d_png }

CoverSizes == {0, 2 * MiB, 5 * MiB - 1, 5 * MiB, 5 * MiB + 1, 6 * MiB}

InitCover ==
    \E path \in CoverNames \cup {<<>>}, name \in CoverNames, size \in CoverSizes, onDisk \in BOOLEAN :
        /\ script = "check_cover_image"
        /\ pc = "start"
        /\ build = ""
        /\ metaFile = "json"
        /\ persisted = [cover_image |-> path]
        /\ initialRecord = [cover_image |-> path]
        /\ metadata = [cover_image |-> path]
        /\ srcDocs = {}
        /\ noBody = {}
        /\ printed = <<>>
        /\ disk = IF onDisk THEN {File(".", name, size)} ELSE {}
        /\ dirs = {}
        /\ tree = [t \in TreeNames |-> {}]
        /\ opf = [t \in TreeNames |-> NoDoc]
        /\ archive = [a \in ArchiveNames |-> NoArchive]
        /\ epubcheck = <<>>
        /\ result = "none"
        /\ prompted = <<>>
        /\ new_metadata = <<>>
        /\ coverCheck = NoCoverCheck
        /\ call = <<>>
        /\ returned = <<>>

\* cover_ok, cover_msg = check_cover_image(cover_path)
CallCheckCoverImage ==
    /\ script = "check_cover_image" /\ pc = "start"
    /\ coverCheck' = check_cover_image(disk, metadata["cover_image"])
    /\ pc' = "done"
    /\ UNCHANGED <<script, build, metaFile, persisted, metadata, srcDocs, noBody, printed, disk, dirs, tree, opf,
                   archive, epubcheck, result, initialRecord, prompted, new_metadata, callVars>>

NextCover == CallCheckCoverImage

SpecCover == InitCover /\ [][NextCover]_vars

(***************************************************************************)
(* convert_html_to_xhtml: the anchors of a document.                       *)
(***************************************************************************)
StartsWith(s, t) == Len(s) >= Len(t) /\ SubSeq(s, 1, Len(t)) = t

\* str.replace(old, new): every occurrence, left to right
RECURSIVE ReplaceAll(_, _, _)
ReplaceAll(s, old, new) ==
    IF Len(s) < Len(old) THEN s
    ELSE IF SubSeq(s, 1, Len(old)) = old
         THEN new \o ReplaceAll(SubSeq(s, Len(old) + 1, Len(s)), old, new)
    ELSE <<Head(s)>> \o ReplaceAll(Tail(s), old, new)

Http == <<"h", "t", "t", "p">>

\* create_epub_complete.py, "Fix internal links": the href of one anchor
CompleteFixLink(href, is_cover) ==
    IF href # <<>> /\ EndsWith(href, Lit.d_html)
    THEN LET new_href == ReplaceAll(href, Lit.d_html, Lit.d_xhtml)
         IN  IF new_href = Xhtml(Lit.index)
             THEN (IF is_cover THEN Lit.cover_d_xhtml ELSE <<".", ".", "/">> \o Lit.cover_d_xhtml)
             ELSE new_href
    ELSE href

\* create_both_epubs.py, "Update internal HTML links to XHTML links"
BothUpdateLink(href) ==
    IF EndsWith(href, Lit.d_html) /\ ~StartsWith(href, Http)
    THEN ReplaceAll(href, Lit.d_html, Lit.d_xhtml) ELSE href

\* create_both_epubs.py, replace_html_links: the pass over the written text,
\* which matches href="...html" with at least one character before .html
BothReplaceHtmlLinks(href) ==
    IF Len(href) > Len(Lit.d_html) /\ EndsWith(href, Lit.d_html) /\ ~StartsWith(href, Http)
    THEN ReplaceAll(href, Lit.d_html, Lit.d_xhtml) ELSE href

\* the hrefs of the anchors of a converted document
ConvertAnchors(anchors, sc, is_cover) ==
    [i \in 1..Len(anchors) |->
        IF sc = "complete" THEN CompleteFixLink(anchors[i], is_cover)
        ELSE BothReplaceHtmlLinks(BothUpdateLink(anchors[i]))]

\* how many anchors a source document has at most
MaxAnchors == 2

Https == Http \o <<"s", ":", "/", "/">>

\* hrefs a source document may hold
HrefPool ==
    { Html(Lit.chapter2), Html(Lit.index),
      Https \o <<"e", ".", "c", "o", "m", "/", "p">> \o Lit.d_html,
      Http \o <<":", "/", "/", "e", ".", "c", "o", "m", "/">>,
      Html(Lit.chapter2) \o <<"#", "s">>, <<"#", "t">>,
      Html(Http \o <<"d">>), Html(Html(<<"a">>)) }

RECURSIVE SeqsUpTo(_, _)
SeqsUpTo(S, n) ==
    IF n = 0 THEN {<<>>}
    ELSE LET P == SeqsUpTo(S, n - 1) IN P \cup {Append(p, x) : p \in P, x \in S}

\* the state of a specification that applies one function
CallInit(sc, args) ==
    /\ script = sc
    /\ pc = "start"
    /\ build = ""
    /\ metaFile = "none"
    /\ persisted = <<>>
    /\ initialRecord = <<>>
    /\ metadata = <<>>
    /\ srcDocs = {}
    /\ noBody = {}
    /\ printed = <<>>
    /\ disk = {}
    /\ dirs = {}
    /\ tree = [t \in TreeNames |-> {}]
    /\ opf = [t \in TreeNames |-> NoDoc]
    /\ archive = [a \in ArchiveNames |-> NoArchive]
    /\ epubcheck = <<>>
    /\ result = "none"
    /\ prompted = <<>>
    /\ new_metadata = <<>>
    /\ coverCheck = NoCoverCheck
    /\ call = args
    /\ returned = <<>>

CallUnchanged ==
    UNCHANGED <<script, build, metaFile, persisted, metadata, srcDocs, noBody, printed, disk, dirs, tree, opf,
                archive, epubcheck, result, initialRecord, prompted, new_metadata, coverCheck, call>>

InitLinks ==
    \E sc \in {"complete", "both"}, anchors \in SeqsUpTo(HrefPool, MaxAnchors), is_cover \in BOOLEAN :
        /\ sc = "both" => ~is_cover
        /\ CallInit(sc, [anchors |-> anchors, is_cover |-> is_cover])

\* convert_html_to_xhtml of create_epub_complete.py on one document
CompleteConvertLinks ==
    /\ script = "complete" /\ pc = "start"
    /\ returned' = ConvertAnchors(call.anchors, "complete", call.is_cover)
    /\ pc' = "done"
    /\ CallUnchanged

\* convert_html_to_xhtml of create_both_epubs.py on one document
BothConvertLinks ==
    /\ script = "both" /\ pc = "start"
    /\ returned' = ConvertAnchors(call.anchors, "both", FALSE)
    /\ pc' = "done"
    /\ CallUnchanged

NextLinks == CompleteConvertLinks \/ BothConvertLinks

SpecLinks == InitLinks /\ [][NextLinks]_vars


(***************************************************************************)
(* The entry points                                                        *)
(***************************************************************************)
\* the `if __name__ == "__main__"` block of each script: check_metadata.py
\* and create_both_epubs.py exit with 0 or 1 after main's return value, the
\* others call main() and drop what it returns; an uncaught exception ends
\* the interpreter with status 1
ExitStatus(sc, r) ==
    IF r = "crash" THEN 1
    ELSE IF sc \in {"check_metadata", "both"} THEN (IF r = "True" THEN 0 ELSE 1)
    ELSE 0

(***************************************************************************)
(* copy_images of create_epub_complete.py as a function of the listings    *)
(***************************************************************************)
MaxListing == 2

\* names os.listdir may return: images whose sanitized names collide, and a
\* file that is not an image
ListedNames ==
    { Name.a_space_b_png, Name.a_hyphen_b_png, Cat(<<"a", "(", ")", "-", "b">>, Lit.d_png),
      Name.cover_jpg, <<"n", "o", "t", "e", "s", ".", "t", "x", "t">> }

DirListings(S, n) == {s \in SeqsUpTo(S, n) : \A i, j \in 1..Len(s) : i # j => s[i] # s[j]}

InitCopy ==
    \E root \in DirListings(ListedNames, MaxListing), other \in DirListings(ListedNames, MaxListing) :
        CallInit("complete", [root |-> root, other |-> other])

CallCopyImages ==
    /\ script = "complete" /\ pc = "start" /\ "root" \in DOMAIN call
    /\ returned' = copy_images(call.root, call.other)
    /\ pc' = "done"
    /\ CallUnchanged

NextCopy == CallCopyImages

SpecCopy == InitCopy /\ [][NextCopy]_vars

(***************************************************************************)
(* create_content_opf as a function of the images of the tree              *)
(***************************************************************************)
MaxMediaFiles == 2

\* image files of each extension copy_images accepts
MediaNames ==
    { Name.cover_jpg, Name.chapter1_png, <<"a", ".", "g", "i", "f">>, <<"l", ".", "s", "v", "g">>,
      <<"p", ".", "J", "P", "E", "G">> }

InitMedia ==
    \E sc \in {"complete", "both"}, images \in DirListings(MediaNames, MaxMediaFiles),
       cover \in {Name.cover_jpg, Name.chapter1_png} :
        CallInit(sc, [images |-> images, cover_image |-> cover])

\* create_content_opf of create_epub_complete.py: the manifest it writes
CompleteCallContentOpf ==
    /\ script = "complete" /\ pc = "start" /\ "images" \in DOMAIN call
    /\ returned' = CompleteContentOpf({E("OEBPS/images", n) : n \in Range(call.images)},
                                      [FullMetadata EXCEPT !.cover_image = call.cover_image]).manifest
    /\ pc' = "done"
    /\ CallUnchanged

\* create_content_opf of create_both_epubs.py: the manifest it writes
BothCallContentOpf ==
    /\ script = "both" /\ pc = "start" /\ "images" \in DOMAIN call
    /\ returned' = BothContentOpf({E("OEBPS/Images", n) : n \in Range(call.images)},
                                  [FullMetadata EXCEPT !.cover_image = call.cover_image],
                                  call.images).manifest
    /\ pc' = "done"
    /\ CallUnchanged

NextMedia == CompleteCallContentOpf \/ BothCallContentOpf

SpecMedia == InitMedia /\ [][NextMedia]_vars

(***************************************************************************)
(* create_both_epubs.py: escape_ampersands                                 *)
(***************************************************************************)
HexChars == CharSet("digit") \cup {"a", "b", "c", "d", "e", "f", "A", "B", "C", "D", "E", "F"}

\* the end of the longest run of characters of set S that starts at s[i]
\* (i - 1 when s[i] is not in S)
RECURSIVE RunEnd(_, _, _)
RunEnd(s, i, S) == IF i <= Len(s) /\ s[i] \in S THEN RunEnd(s, i + 1, S) ELSE i - 1

\* the length of the match of
\* r'&(?:[a-zA-Z][a-zA-Z0-9]*|#\d+|#x[0-9a-fA-F]+);' at s[i], 0 for no match
EntityMatchLen(s, i) ==
    LET letters == CharSet("lower") \cup CharSet("upper")
        closes(j) == j + 1 <= Len(s) /\ s[j + 1] = ";"
    IN  IF s[i] # "&" \/ i = Len(s) THEN 0
        ELSE IF s[i + 1] \in letters
             THEN LET j == RunEnd(s, i + 2, letters \cup CharSet("digit"))
                  IN  IF closes(j) THEN j + 2 - i ELSE 0
        ELSE IF s[i + 1] = "#"
             THEN LET d == RunEnd(s, i + 2, CharSet("digit"))
                      h == IF i + 2 <= Len(s) /\ s[i + 2] = "x" THEN RunEnd(s, i + 3, HexChars) ELSE 0
                  IN  IF d >= i + 2 /\ closes(d) THEN d + 2 - i
                      ELSE IF h >= i + 3 /\ closes(h) THEN h + 2 - i
                      ELSE 0
        ELSE 0

\* f'___ENTITY_{entity_counter}___'
Placeholder(entity_counter) ==
    <<"_", "_", "_", "E", "N", "T", "I", "T", "Y", "_">> \o IntStr(entity_counter) \o <<"_", "_", "_">>

\* re.sub(pattern, replace_entity, text): the text with a placeholder for
\* each match, and the entities in the order of entity_map
RECURSIVE ProtectEntities(_, _, _, _)
ProtectEntities(s, i, text, entity_map) ==
    IF i > Len(s) THEN [text |-> text, entity_map |-> entity_map]
    ELSE LET m == EntityMatchLen(s, i)
         IN  IF m > 0
             THEN ProtectEntities(s, i + m, text \o Placeholder(Len(entity_map)),
                                  Append(entity_map, SubSeq(s, i, i + m - 1)))
             ELSE ProtectEntities(s, i + 1, Append(text, s[i]), entity_map)

\* for placeholder, entity in entity_map.items(): text.replace(placeholder, entity)
RECURSIVE RestoreEntities(_, _, _)
RestoreEntities(text, entity_map, k) ==
    IF k > Len(entity_map) THEN text
    ELSE RestoreEntities(ReplaceAll(text, Placeholder(k - 1), entity_map[k]), entity_map, k + 1)

escape_ampersands(text) ==
    LET protected == ProtectEntities(text, 1, <<>>, <<>>)
        escaped == ReplaceAll(protected.text, <<"&">>, <<"&", "a", "m", "p", ";">>)
    IN  RestoreEntities(escaped, protected.entity_map, 1)

\* "Fix common entities first", then escape_ampersands
BothFixEntities(text) ==
    escape_ampersands(ReplaceAll(text, <<"&", "n", "b", "s", "p", ";">>, <<"&", "#", "1", "6", "0", ";">>))

MaxPieces == 3

\* pieces of text: references, bare ampersands, plain characters, and a
\* string of the shape of a placeholder
TextPieces ==
    { <<"&">>, <<"a">>, <<";">>, <<"&", "a", "m", "p", ";">>, <<"&", "n", "b", "s", "p", ";">>,
      <<"&", "#", "6", "5", ";">>, <<"&", "#", "x", "1", "f", ";">>, <<"&", "#", "x", ";">>,
      Placeholder(0) }

RECURSIVE Flatten(_)
Flatten(pieces) == IF pieces = <<>> THEN <<>> ELSE Head(pieces) \o Flatten(Tail(pieces))

InitEscape ==
    \E pieces \in SeqsUpTo(TextPieces, MaxPieces) : CallInit("both", [text |-> Flatten(pieces)])

CallEscapeAmpersands ==
    /\ script = "both" /\ pc = "start" /\ "text" \in DOMAIN call
    /\ returned' = BothFixEntities(call.text)
    /\ pc' = "done"
    /\ CallUnchanged

NextEscape == CallEscapeAmpersands

SpecEscape == InitEscape /\ [][NextEscape]_vars

(***************************************************************************)
(* convert_html_to_xhtml: the elements of a document.                      *)
(* An element is [tag, class, place]; place is "head", "body" (a child of  *)
(* body) or "body/div" (inside a plain div of the body).                   *)
(***************************************************************************)
El(tag, class, place) == [tag |-> tag, class |-> class, place |-> place]

InBody(e) == e.place \in {"body", "body/div"}

\* create_epub_complete.py: the elements decompose() removes
CompleteRemoved(e) ==
    \/ InBody(e) /\ e.tag \in {"nav", "header", "footer"}
    \/ InBody(e) /\ e.class \in {"navigation-buttons", "nav-button", "enter-button"}
    \/ e.tag = "link" /\ e.class = "stylesheet"
    \/ e.tag = "script"
    \/ e.tag = "style"

\* create_epub_complete.py: the elements of the body written to the output
CompleteBodyContent(doc) == SelectSeq(doc, LAMBDA e : InBody(e) /\ ~CompleteRemoved(e))

\* create_both_epubs.py: the elements decompose() removes
BothRemoved(e) ==
    \/ InBody(e) /\ e.tag = "div" /\ e.class \in {"navigation", "navigation-buttons"}
    \/ InBody(e) /\ e.tag = "a" /\ e.class \in {"nav-link", "nav-button"}

\* soup.find('style'): the first style element of the document, and the
\* block written into the head of the output
BothStyleContent(doc) ==
    LET styles == SelectSeq(doc, LAMBDA e : e.tag = "style" /\ e.place = "head")
                  \o SelectSeq(doc, LAMBDA e : e.tag = "style" /\ InBody(e))
    IN  IF styles = <<>> THEN <<>> ELSE <<El("style", styles[1].class, "head")>>

\* create_both_epubs.py: the style block and the elements of the body
\* written to the output
BothBodyContent(doc) ==
    BothStyleContent(doc) \o SelectSeq(doc, LAMBDA e : InBody(e) /\ ~BothRemoved(e))

MaxElements == 2

\* elements a source document may hold
ElementPool ==
    { El("script", "", "head"), El("script", "", "body"), El("script", "", "body/div"),
      El("style", "", "head"), El("style", "", "body"),
      El("link", "stylesheet", "head"),
      El("nav", "", "body"), El("nav", "", "body/div"),
      El("div", "navigation-buttons", "body"), El("div", "navigation", "body"),
      El("a", "nav-button", "body/div"), El("a", "nav-link", "body"),
      El("a", "enter-button", "body"), El("button", "nav-button", "body"),
      El("p", "", "body"), El("div", "callout", "body") }

InitStrip ==
    \E sc \in {"complete", "both"}, doc \in DirListings(ElementPool, MaxElements) :
        CallInit(sc, [doc |-> doc])

CompleteConvertBody ==
    /\ script = "complete" /\ pc = "start" /\ "doc" \in DOMAIN call
    /\ returned' = CompleteBodyContent(call.doc)
    /\ pc' = "done"
    /\ CallUnchanged

BothConvertBody ==
    /\ script = "both" /\ pc = "start" /\ "doc" \in DOMAIN call
    /\ returned' = BothBodyContent(call.doc)
    /\ pc' = "done"
    /\ CallUnchanged

NextStrip == CompleteConvertBody \/ BothConvertBody

SpecStrip == InitStrip /\ [][NextStrip]_vars

(***************************************************************************)
(* convert_html_to_xhtml called more than once in a process.               *)
(***************************************************************************)
\* a document whose conversion reads how many documents were converted before
ConvertDocument_numbered(sc, doc, is_cover, is_kdp, earlier) ==
    [ body_class |-> IF is_kdp THEN "kdp-mode" ELSE "",
      css_path   |-> IntStr(Len(earlier)),
      content    |-> IF sc = "complete" THEN CompleteBodyContent(doc) ELSE BothBodyContent(doc) ]

\* convert_html_to_xhtml: the document written for a source document and the
\* flags; earlier holds what the process converted before, which neither
\* script reads (no module-level state is used, every name is local)
ConvertDocument(sc, doc, is_cover, is_kdp, earlier) ==
    [ body_class |-> IF is_kdp THEN "kdp-mode" ELSE "",
      css_path   |-> IF sc = "complete" /\ is_cover THEN Lit.style_d_css ELSE <<".", ".", "/">> \o Lit.style_d_css,
      content    |-> IF sc = "complete" THEN CompleteBodyContent(doc) ELSE BothBodyContent(doc) ]

MaxDocElements == 1

InitTwice ==
    \E sc \in {"complete", "both"}, doc \in DirListings(ElementPool, MaxDocElements),
       is_cover \in BOOLEAN, is_kdp \in BOOLEAN :
        /\ sc = "both" => ~is_cover
        /\ CallInit(sc, [source |-> doc, is_cover |-> is_cover, is_kdp |-> is_kdp])

\* a conversion of the document of the call
ConvertSource ==
    /\ pc \in {"start", "again"} /\ "source" \in DOMAIN call
    /\ returned' = Append(returned, ConvertDocument(script, call.source, call.is_cover, call.is_kdp, returned))
    /\ pc' = IF pc = "start" THEN "between" ELSE "done"
    /\ CallUnchanged

\* a conversion of some other document, with any flags, between the two
ConvertOther ==
    /\ pc = "between" /\ "source" \in DOMAIN call
    /\ \E doc \in DirListings(ElementPool, MaxDocElements), is_cover \in BOOLEAN, is_kdp \in BOOLEAN :
          returned' = Append(returned, ConvertDocument(script, doc, is_cover, is_kdp, returned))
    /\ pc' = "again"
    /\ CallUnchanged

NextTwice == ConvertSource \/ ConvertOther

SpecTwice == InitTwice /\ [][NextTwice]_vars

(***************************************************************************)
(* update_all_print_styles.py: update_print_css_in_file.  A file content   *)
(* is the sequence content.split('\n') of its lines; the lines are drawn   *)
(* from LinePool, and none of them holds a script element.                 *)
(***************************************************************************)
CommentLine == "/* Print-specific styles - FULL COLOR */"
MediaLine == "@media print {"
ListenerLine == "window.addEventListener('print', forceGrayscalePrint);"

LinePool == {"", "p", "r {", "}", MediaLine, CommentLine, ListenerLine}

\* PRINT_CSS.split('\n'): a comment line, the line that opens the block, the
\* rules of the block and the line that closes it
PRINT_CSS == <<CommentLine, MediaLine, "r {", "}", "}">>

HasMediaPrint(line) == line = MediaLine

\* line.count('{') - line.count('}')
BraceDelta(line) ==
    CASE line \in {MediaLine, "r {"} -> 1
      [] line = "}" -> -1
      [] OTHER -> 0

\* re.sub(r'\n\s*\n\s*\n+', '\n\n', content): of a run of blank lines that
\* stands between two line ends, one empty line is kept
RECURSIVE CollapseBlank(_, _)
CollapseBlank(lines, i) ==
    IF i > Len(lines) THEN <<>>
    ELSE IF /\ i > 2 /\ i < Len(lines)
            /\ lines[i] = "" /\ lines[i - 1] = ""
         THEN CollapseBlank(lines, i + 1)
         ELSE <<lines[i]>> \o CollapseBlank(lines, i + 1)

remove_grayscale_javascript(lines) ==
    CollapseBlank([i \in 1..Len(lines) |->
                      IF lines[i] = ListenerLine THEN "" ELSE lines[i]], 1)

RECURSIVE BraceSum(_, _, _)
BraceSum(lines, from, to) ==
    IF from > to THEN 0 ELSE BraceDelta(lines[from]) + BraceSum(lines, from + 1, to)

Min(S) == CHOOSE x \in S : \A y \in S : x <= y

\* the lines at which a '}' stands after line i
ClosesAfter(lines, i) == {j \in (i + 1)..Len(lines) : lines[j] = "}"}

\* re.search(r'(@media print\s*\{[^}]*\{[^}]*\}[^}]*\})'): the lines of the
\* leftmost match, <<>> when there is none
NestedMatch(lines) ==
    LET ok(i) == /\ HasMediaPrint(lines[i])
                 /\ Cardinality(ClosesAfter(lines, i)) >= 2
                 /\ \E k \in (i + 1)..(Min(ClosesAfter(lines, i)) - 1) :
                        BraceDelta(lines[k]) = 1
        S == {i \in 1..Len(lines) : ok(i)}
    IN  IF S = {} THEN <<>>
        ELSE LET c1 == Min(ClosesAfter(lines, Min(S)))
             IN  <<Min(S), Min(ClosesAfter(lines, c1))>>

\* re.search(r'(@media print\s*\{.*?\})')
SimpleMatch(lines) ==
    LET S == {i \in 1..Len(lines) : HasMediaPrint(lines[i]) /\ ClosesAfter(lines, i) # {}}
    IN  IF S = {} THEN <<>> ELSE <<Min(S), Min(ClosesAfter(lines, Min(S)))>>


\* the file after the call, and the value the call returns
update_print_css_in_file(file) ==
    LET lines == remove_grayscale_javascript(file)
        medias == {i \in 1..Len(lines) : HasMediaPrint(lines[i])}
    IN  IF medias = {} THEN [content |-> file, value |-> FALSE]
        ELSE LET start_idx == Min(medias)
                 ends == {j \in start_idx..Len(lines) : BraceSum(lines, start_idx, j) = 0}
             IN  IF ends = {}
                 THEN LET match == IF NestedMatch(lines) # <<>> THEN NestedMatch(lines)
                                   ELSE SimpleMatch(lines)
                      IN  IF match = <<>> THEN [content |-> file, value |-> FALSE]
                          ELSE [content |-> SubSeq(lines, 1, match[1] - 1) \o PRINT_CSS
                                            \o <<"">> \o SubSeq(lines, match[2] + 1, Len(lines)),
                                value |-> TRUE]
                 ELSE [content |-> SubSeq(lines, 1, start_idx - 1) \o PRINT_CSS
                                   \o SubSeq(lines, Min(ends) + 1, Len(lines)),
                       value |-> TRUE]

(***************************************************************************)
(* add_print_css.py: add_print_css_to_file                                 *)
(***************************************************************************)
StyleEnd == "    </style>"

\* a closing style tag that does not follow four spaces
OtherStyleEnd == "</style>"

StylePool == {"p", StyleEnd, OtherStyleEnd, MediaLine}

\* print_css.split('\n'), without the empty string after its last line end
print_css == <<"", "/* Print-specific styles */", MediaLine, "r {", "}", "}">>

\* content.replace('    </style>', print_css + '    </style>')
RECURSIVE InsertBeforeStyleEnd(_)
InsertBeforeStyleEnd(lines) ==
    IF lines = <<>> THEN <<>>
    ELSE (IF Head(lines) = StyleEnd THEN print_css \o <<StyleEnd>> ELSE <<Head(lines)>>)
         \o InsertBeforeStyleEnd(Tail(lines))

\* the file after the call, and the value the call returns
add_print_css_to_file(file) ==
    IF \E i \in 1..Len(file) : HasMediaPrint(file[i]) THEN [content |-> file, value |-> FALSE]
    ELSE IF ~ \E i \in 1..Len(file) : file[i] \in {StyleEnd, OtherStyleEnd}
         THEN [content |-> file, value |-> FALSE]
         ELSE [content |-> InsertBeforeStyleEnd(file), value |-> TRUE]

MaxLines == 3

InitPrint ==
    \E n \in 1..MaxLines :
        \/ \E file \in [1..n -> LinePool] :
               CallInit("update_all_print_styles", [html_file |-> file])
        \/ \E file \in [1..n -> StylePool] :
               CallInit("add_print_css", [html_file |-> file])

\* one run of update_all_print_styles.py on the file, after the runs before it
UpdatePrintCss ==
    /\ script = "update_all_print_styles" /\ "html_file" \in DOMAIN call
    /\ Len(returned) < 2
    /\ returned' = Append(returned,
           update_print_css_in_file(IF returned = <<>> THEN call.html_file
                                    ELSE returned[Len(returned)].content))
    /\ pc' = IF returned = <<>> THEN "again" ELSE "done"
    /\ CallUnchanged

\* one run of add_print_css.py on the file, after the runs before it
AddPrintCss ==
    /\ script = "add_print_css" /\ "html_file" \in DOMAIN call
    /\ Len(returned) < 2
    /\ returned' = Append(returned,
           add_print_css_to_file(IF returned = <<>> THEN call.html_file
                                 ELSE returned[Len(returned)].content))
    /\ pc' = IF returned = <<>> THEN "again" ELSE "done"
    /\ CallUnchanged

NextPrint == UpdatePrintCss \/ AddPrintCss

SpecPrint == InitPrint /\ [][NextPrint]_vars

(***************************************************************************)
(* The book identifier.  create_epub_complete.py keeps it on the function  *)
(* get_book_id, create_both_epubs.py in the local book_uuid of             *)
(* create_epub_version.  `returned' is the sequence of the calls made so   *)
(* far, each with the value it used, the identifier held after it and the  *)
(* clock after it; the clock counts half seconds.                          *)
(***************************************************************************)
NoId == <<>>

UrnPrefix ==
    <<"u", "r", "n", ":", "u", "u", "i", "d", ":", "e", "s", "c", "a", "p", "e", "-", "h", "e", "l", "l", "-", "m", "y", "t", "h", "-">>

TicksPerSecond == 2

MaxPause == 1

\* datetime.now().strftime('%Y%m%d%H%M%S'): the clock, to the second
Strftime(now) == IntStr(now \div TicksPerSecond)

\* the identifier returned whatever is cached
get_book_id_uncached(cached_id, now) ==
    [ cached_id |-> UrnPrefix \o Strftime(now), value |-> UrnPrefix \o Strftime(now) ]

\* the attribute cached_id after the call, and the value returned
get_book_id(cached_id, now) ==
    LET id == IF cached_id = NoId THEN UrnPrefix \o Strftime(now) ELSE cached_id
    IN  [ cached_id |-> id, value |-> id ]

reset_book_id(cached_id) == NoId

\* str(uuid.uuid4())
UuidPool == {<<"u", "1">>, <<"u", "2">>}

\* book_uuid of create_content_opf and create_toc_ncx in create_both_epubs.py
BothBookId(book_uuid, fresh) == IF book_uuid = NoId THEN fresh ELSE book_uuid

BuildNames(sc) == IF sc = "complete" THEN <<"gumroad", "kdp">> ELSE <<"standard", "kdp">>

Called(op, b, value, held, now) ==
    [ op |-> op, build |-> b, value |-> value, held |-> held, now |-> now ]

\* the identifier held and the clock, after the calls made so far
Held == IF returned = <<>> THEN NoId ELSE returned[Len(returned)].held

Now == IF returned = <<>> THEN call.now ELSE returned[Len(returned)].now

BuildNo == Cardinality({i \in 1..Len(returned) : returned[i].op \in {"reset_book_id", "uuid4"}})

InitBookId ==
    \E sc \in {"complete", "both"}, t \in 0..(TicksPerSecond - 1) : CallInit(sc, [now |-> t])

\* create_gumroad_epub, create_amazon_kdp_epub: reset_book_id();
\* create_epub_version: book_uuid = str(uuid.uuid4())
BookIdStart ==
    /\ "now" \in DOMAIN call /\ pc \in {"start", "built"}
    /\ BuildNo < Len(BuildNames(script))
    /\ \E dt \in 0..MaxPause, u \in UuidPool :
          returned' = Append(returned,
              IF script = "complete"
              THEN Called("reset_book_id", BuildNames(script)[BuildNo + 1], NoId,
                          reset_book_id(Held), Now + dt)
              ELSE Called("uuid4", BuildNames(script)[BuildNo + 1], u, u, Now + dt))
    /\ pc' = "opf"
    /\ CallUnchanged

\* create_content_opf: the dc:identifier
BookIdContentOpf ==
    /\ "now" \in DOMAIN call /\ pc = "opf"
    /\ \E dt \in 0..MaxPause, u \in UuidPool :
          LET got == IF script = "complete" THEN get_book_id(Held, Now + dt)
                     ELSE [cached_id |-> Held, value |-> BothBookId(Held, u)]
          IN  returned' = Append(returned,
                  Called("create_content_opf", BuildNames(script)[BuildNo],
                         got.value, got.cached_id, Now + dt))
    /\ pc' = "ncx"
    /\ CallUnchanged

\* create_toc_ncx: the dtb:uid
BookIdTocNcx ==
    /\ "now" \in DOMAIN call /\ pc = "ncx"
    /\ \E dt \in 0..MaxPause, u \in UuidPool :
          LET got == IF script = "complete" THEN get_book_id(Held, Now + dt)
                     ELSE [cached_id |-> Held, value |-> BothBookId(Held, u)]
          IN  returned' = Append(returned,
                  Called("create_toc_ncx", BuildNames(script)[BuildNo],
                         got.value, got.cached_id, Now + dt))
    /\ pc' = "built"
    /\ CallUnchanged

NextBookId == BookIdStart \/ BookIdContentOpf \/ BookIdTocNcx

SpecBookId == InitBookId /\ [][NextBookId]_vars

(***************************************************************************)
(* create_final_epub.py: fix_content_opf_duplicates on any manifest        *)
(***************************************************************************)
MaxItems == 3

ItemIdPool == {<<"a">>, <<"a", "_", "1">>, <<"a", "_", "2">>, <<"b">>}

InitFixIds ==
    \E ids \in SeqsUpTo(ItemIdPool, MaxItems) :
        /\ ids # <<>>
        /\ CallInit("final", [items |-> [i \in 1..Len(ids) |-> [id |-> ids[i], line |-> i]]])

\* one run of the pass on the manifest the runs before it left
CallFixContentOpfDuplicates ==
    /\ script = "final" /\ "items" \in DOMAIN call
    /\ Len(returned) < 2
    /\ returned' = Append(returned,
           FixDuplicateItems(IF returned = <<>> THEN call.items ELSE returned[Len(returned)], {}))
    /\ pc' = IF returned = <<>> THEN "again" ELSE "done"
    /\ CallUnchanged

NextFixIds == CallFixContentOpfDuplicates

SpecFixIds == InitFixIds /\ [][NextFixIds]_vars

(***************************************************************************)
(* create_epub_complete.py: create_toc_ncx and create_nav_xhtml            *)
(***************************************************************************)
\* nav_structure of create_toc_ncx, without the titles: id and src
nav_structure ==
    << [id |-> Lit.cover, src |-> E("", Lit.cover_d_xhtml)] >>
    \o [ i \in 1..20 |->
           LET ids == << Lit.copyright, Lit.dedication, Lit.toc, Lit.introduction, Lit.part1,
                         Lit.chapter1, Lit.chapter2, Lit.part2, Lit.chapter3, Lit.part3,
                         Lit.chapter4, Lit.chapter5, Lit.part4, Lit.chapter6, Lit.chapter7,
                         Lit.chapter8, Lit.conclusion, Lit.other_h_books, Lit.appendix,
                         Lit.bibliography >>
           IN  [id |-> ids[i], src |-> E("Text", Xhtml(ids[i]))] ]

\* f'epub_build/OEBPS/{src}'
FullPath(src) == E(IF src.dir = "" THEN "OEBPS" ELSE "OEBPS/Text", src.name)

\* play_order counted for every entry of nav_structure
RECURSIVE create_toc_ncx_countAll(_, _, _)
create_toc_ncx_countAll(structure, files, play_order) ==
    IF structure = <<>> THEN <<>>
    ELSE (IF FullPath(Head(structure).src) \in files
          THEN <<[id |-> Head(structure).id, playOrder |-> play_order, src |-> Head(structure).src]>>
          ELSE <<>>)
         \o create_toc_ncx_countAll(Tail(structure), files, play_order + 1)

\* the navPoint elements of toc.ncx
RECURSIVE create_toc_ncx(_, _, _)
create_toc_ncx(structure, files, play_order) ==
    IF structure = <<>> THEN <<>>
    ELSE IF FullPath(Head(structure).src) \in files
         THEN <<[id |-> Head(structure).id, playOrder |-> play_order, src |-> Head(structure).src]>>
              \o create_toc_ncx(Tail(structure), files, play_order + 1)
         ELSE create_toc_ncx(Tail(structure), files, play_order)

\* the li elements of nav.xhtml
RECURSIVE create_nav_xhtml(_, _)
create_nav_xhtml(structure, files) ==
    IF structure = <<>> THEN <<>>
    ELSE (IF FullPath(Head(structure).src) \in files THEN <<[src |-> Head(structure).src]>> ELSE <<>>)
         \o create_nav_xhtml(Tail(structure), files)

MaxNavAbsent == 2

\* the build tree after convert_all_html_files, for the source documents
\* that exist: at most MaxNavAbsent of them absent, or at most MaxNavAbsent present
InitNav ==
    \E k \in 0..MaxNavAbsent : \E S \in KSubsets(Range(HTML_FILES_ORDER), k) :
        \E docs \in {S, Range(HTML_FILES_ORDER) \ S} :
            CallInit("complete",
                     [files |-> {Entry.mimetype, Entry.container, Entry.style} \cup CompleteConverted(docs)])

CallCreateTocNcx ==
    /\ script = "complete" /\ "files" \in DOMAIN call /\ pc = "start"
    /\ returned' = <<create_toc_ncx(nav_structure, call.files, 1)>>
    /\ pc' = "nav"
    /\ CallUnchanged

CallCreateNavXhtml ==
    /\ script = "complete" /\ "files" \in DOMAIN call /\ pc = "nav"
    /\ returned' = Append(returned, create_nav_xhtml(nav_structure, call.files \cup {Entry.ncx}))
    /\ pc' = "done"
    /\ CallUnchanged

NextNav == CallCreateTocNcx \/ CallCreateNavXhtml

SpecNav == InitNav /\ [][NextNav]_vars
(***************************************************************************)
(* The package documents and archives a run has produced.                  *)
(***************************************************************************)
CountId(items, id) == Cardinality({i \in 1..Len(items) : items[i].id = id})

NoRepeat(s) == \A i, j \in 1..Len(s) : i # j => s[i] # s[j]

RECURSIVE IsSubsequence(_, _)
IsSubsequence(s, t) ==
    IF s = <<>> THEN TRUE
    ELSE IF t = <<>> THEN FALSE
    ELSE IF Head(s) = Head(t) THEN IsSubsequence(Tail(s), Tail(t))
    ELSE IsSubsequence(s, Tail(t))

MapSafeId(s) == [i \in 1..Len(s) |-> SafeId(s[i])]

Produced(doc, files, order) == [doc |-> doc, files |-> files, order |-> order]

\* the documents written by create_content_opf, with the files of their tree
CompleteDocs ==
    IF script = "complete" /\ opf["epub_build"] # NoDoc
    THEN {Produced(opf["epub_build"], tree["epub_build"], SPINE_ORDER)} ELSE {}

BothDocs ==
    IF script = "both"
    THEN {Produced(opf[t], tree[t], CORRECT_SPINE_ORDER) :
          t \in {u \in {"epub_gumroad", "epub_kdp"} : opf[u] # NoDoc}}
    ELSE {}

\* the document create_kdp_content_opf has written, before fix_spine_order
KdpOpfDocs ==
    IF script = "kdp" /\ pc = "spine"
    THEN {Produced(opf["epub"], tree["epub"], kdp_correct_order)} ELSE {}

\* the documents whose spine fix_spine_order has rewritten
KdpFixedDocs ==
    IF script = "kdp" /\ (pc = "zip" \/ (pc = "done" /\ result = "True"))
    THEN {Produced(opf["epub"], tree["epub"], correct_order)} ELSE {}

FinalFixedDocs ==
    IF script = "final" /\ (pc = "zip" \/ (pc = "done" /\ result = "None")) /\ opf["epub"].spineTag
    THEN {Produced(opf["epub"], tree["epub"], final_correct_order)} ELSE {}

\* the converted document of a declared id is in the tree
DocPresent(files, id) ==
    IF id = Lit.cover THEN Entry.cover \in files ELSE E("OEBPS/Text", Xhtml(id)) \in files

\* the archives this run has written
WrittenArchives == {a \in ArchiveNames : archive[a].exists /\ archive[a] # StaleArchive}

(***************************************************************************)
(* C1                                                                      *)
(***************************************************************************)
\* C1: in every archive written by create_epub_file (both scripts),
\* create_kdp_epub and create_final_epub.create_epub, whatever files the
\* packaging tree holds and in whatever order the walk lists them, the first
\* entry is 'mimetype', stored uncompressed, and every other entry comes
\* after it (no later entry is the mimetype file).
C1_MimetypeFirstStored ==
    \A a \in ArchiveNames :
        archive[a].entries # <<>> =>
            /\ archive[a].entries[1].entry = Entry.mimetype
            /\ archive[a].entries[1].compress = "stored"
            /\ \A i \in 2..Len(archive[a].entries) : archive[a].entries[i].entry # Entry.mimetype

\* create_both_epubs.py has written both archives, each with compressed
\* entries after the marker
C1_Witness ==
    /\ script = "both" /\ pc = "done"
    /\ WrittenArchives = {"Gumroad", "KDP"}
    /\ \A a \in WrittenArchives :
          /\ Len(archive[a].entries) > 3
          /\ \E i \in 2..Len(archive[a].entries) : archive[a].entries[i].compress = "deflated"

(***************************************************************************)
(* C2                                                                      *)
(***************************************************************************)
\* C2: in every package document produced by create_content_opf (both
\* scripts) and by fix_spine_order of create_kdp_epub.py, every spine idref
\* is the id of exactly one manifest item, and a declared id whose document
\* is absent from the build is not in the spine.
C2_SpineResolves ==
    \A d \in CompleteDocs \cup BothDocs \cup KdpFixedDocs :
        /\ \A i \in 1..Len(d.doc.spine) : CountId(d.doc.manifest, d.doc.spine[i]) = 1
        /\ \A id \in Range(d.order) :
              ~DocPresent(d.files, id) =>
                  /\ id \notin Range(d.doc.spine)
                  /\ SafeId(id) \notin Range(d.doc.spine)

(***************************************************************************)
(* C3                                                                      *)
(***************************************************************************)
\* C3 as stated: the idrefs of every spine written by create_content_opf
\* (both scripts) and by fix_spine_order form a subsequence of the declared
\* order list, with no id twice.
C3_SpineSubsequenceOfDeclared ==
    \A d \in CompleteDocs \cup BothDocs \cup KdpFixedDocs \cup FinalFixedDocs :
        /\ NoRepeat(d.doc.spine)
        /\ IsSubsequence(d.doc.spine, d.order)

\* C3: the spine follows the declared reading order whatever the listing
\* order and the names: no idref occurs twice; the idrefs written by
\* create_content_opf of create_both_epubs.py and by fix_spine_order are a
\* subsequence of the declared list, and those written by create_content_opf
\* of create_epub_complete.py are the declared ids of a subsequence with
\* every character other than a letter, digit or underscore replaced by an
\* underscore ("other-books" is referenced as "other_books").
C3_SpineFollowsDeclaredOrder ==
    /\ \A d \in BothDocs \cup KdpFixedDocs \cup FinalFixedDocs :
          NoRepeat(d.doc.spine) /\ IsSubsequence(d.doc.spine, d.order)
    /\ \A d \in CompleteDocs :
          NoRepeat(d.doc.spine) /\ IsSubsequence(d.doc.spine, MapSafeId(d.order))

\* create_epub_complete.py has written a spine with a document absent and
\* with other-books present
C3_Witness ==
    \E d \in CompleteDocs :
        /\ SafeId(Lit.other_h_books) \in Range(d.doc.spine)
        /\ Len(d.doc.spine) = Len(SPINE_ORDER) - 1
        /\ Lit.chapter2 \notin Range(d.doc.spine)
        /\ Lit.chapter1 \in Range(d.doc.spine)

(***************************************************************************)
(* C4                                                                      *)
(***************************************************************************)
\* C4: in the manifest written by create_content_opf (both scripts), no two
\* items carry the same id, the fixed items, the document items and the
\* image items counted together.
C4_ManifestIdsUnique ==
    \A d \in CompleteDocs \cup BothDocs :
        \A i, j \in 1..Len(d.doc.manifest) :
            i # j => d.doc.manifest[i].id # d.doc.manifest[j].id

(***************************************************************************)
(* C5                                                                      *)
(***************************************************************************)
\* the converted content documents of a tree: cover.xhtml and the files of Text/
ContentDocuments(files) ==
    {e \in files : e = Entry.cover \/ (e.dir = "OEBPS/Text" /\ EndsWith(e.name, Lit.d_xhtml))}

HrefOf(e) == IF e = Entry.cover THEN E("", Lit.cover_d_xhtml) ELSE E("Text", e.name)

\* C5: every converted content document in the package (cover.xhtml and each
\* file under Text/) has exactly one manifest item and exactly one spine
\* itemref, in the documents written by create_content_opf (both scripts)
\* and by create_kdp_content_opf.
C5_EveryDocumentListedOnce ==
    \A d \in CompleteDocs \cup BothDocs \cup KdpOpfDocs :
        \A e \in ContentDocuments(d.files) :
            LET items == {i \in 1..Len(d.doc.manifest) : d.doc.manifest[i].href = HrefOf(e)}
            IN  /\ Cardinality(items) = 1
                /\ \A i \in items :
                      Cardinality({j \in 1..Len(d.doc.spine) :
                                     d.doc.spine[j] = d.doc.manifest[i].id}) = 1

(***************************************************************************)
(* C6                                                                      *)
(***************************************************************************)
IdLetters ==
    { "a","b","c","d","e","f","g","h","i","j","k","l","m","n","o","p","q","r","s","t","u","v",
      "w","x","y","z","A","B","C","D","E","F","G","H","I","J","K","L","M","N","O","P","Q","R",
      "S","T","U","V","W","X","Y","Z","0","1","2","3","4","5","6","7","8","9","_" }

\* C6: every id in a manifest item or spine itemref written by
\* create_content_opf (both scripts) consists of letters, digits and
\* underscores only.
C6_IdsAreIdentifiers ==
    \A d \in CompleteDocs \cup BothDocs :
        /\ \A i \in 1..Len(d.doc.manifest) : Range(d.doc.manifest[i].id) \subseteq IdLetters
        /\ \A i \in 1..Len(d.doc.spine) : Range(d.doc.spine[i]) \subseteq IdLetters

(***************************************************************************)
(* C7                                                                      *)
(***************************************************************************)
\* C7: once a packaging run (create_epub_complete.py, create_both_epubs.py,
\* create_kdp_epub.py) is past loading the metadata, the record has a
\* non-empty title, author, publisher, publication_date and cover_image, and
\* no package document carries a default in place of a missing field.
C7_RequiredFieldsPresent ==
    script \in {"complete", "both", "kdp"} /\ pc \notin {"start", "done"} =>
        /\ \A f \in Range(required_fields) : f \in DOMAIN metadata /\ metadata[f] # <<>>
        /\ \A d \in CompleteDocs \cup BothDocs \cup KdpOpfDocs :
              /\ "title" \in DOMAIN metadata /\ d.doc.dc.title = metadata["title"]
              /\ "author" \in DOMAIN metadata /\ d.doc.dc.creator = metadata["author"]
              /\ "publisher" \in DOMAIN metadata /\ d.doc.dc.publisher = metadata["publisher"]
              /\ "publication_date" \in DOMAIN metadata /\ d.doc.dc.date = metadata["publication_date"]

(***************************************************************************)
(* C8                                                                      *)
(***************************************************************************)
\* the required fields absent or empty in the record main started from
AbsentOrEmpty == {f \in Range(required_fields) : f \notin DOMAIN initialRecord \/ initialRecord[f] = <<>>}

PromptsFor(f) == {i \in 1..Len(prompted) : prompted[i].field = f}

Last(S) == CHOOSE i \in S : \A j \in S : j <= i

\* the prompts for f: asked again after each empty answer, until one is not empty
AskedUntilAnswered(f) ==
    /\ PromptsFor(f) # {}
    /\ \A i \in PromptsFor(f) : (prompted[i].answer = <<>>) <=> (i # Last(PromptsFor(f)))
    /\ \A i \in PromptsFor(f) : i # Last(PromptsFor(f)) => i + 1 \in PromptsFor(f)

\* C8 as stated: check_metadata.main prompts for exactly the required fields
\* absent or empty in the persisted record and for no other field, each
\* until the answer is not empty, and persists a record holding every
\* prompted field with the value entered.
C8_PromptsExactlyMissing ==
    script = "check_metadata" /\ pc = "done" /\ metaFile = "json" =>
        /\ {prompted[i].field : i \in 1..Len(prompted)} = AbsentOrEmpty
        /\ \A f \in AbsentOrEmpty :
              /\ AskedUntilAnswered(f)
              /\ f \in DOMAIN persisted
              /\ persisted[f] = prompted[Last(PromptsFor(f))].answer

(***************************************************************************)
(* C9                                                                      *)
(***************************************************************************)
\* the name ends, whatever the case of the letters, in ext after a stem
HasExtension(path, ext) == Len(path) > Len(ext) /\ EndsWith(Lower(path), ext)

\* the reason of the first check that fails
FirstFailure(files, path) ==
    IF path = <<>> THEN "no-path"
    ELSE IF \A f \in files : PathOf(f) # path THEN "not-found"
    ELSE IF \E f \in files : PathOf(f) = path /\ f.size > 5 * 1024 * 1024 THEN "too-large"
    ELSE IF \A ext \in {Lit.d_jpg, Lit.d_jpeg, Lit.d_png} : ~HasExtension(path, ext) THEN "unsupported-format"
    ELSE "ok"

\* C9: check_cover_image(path) succeeds exactly when the path is not empty,
\* the file exists, its size is at most 5 MiB (the limit accepted) and its
\* extension is, whatever the case, .jpg, .jpeg or .png; otherwise it fails
\* with the reason of the first failing check in the order no-path,
\* not-found, too-large, unsupported-format.
C9_CoverCheckVerdict ==
    script = "check_cover_image" /\ pc = "done" =>
        /\ coverCheck.reason = FirstFailure(disk, metadata["cover_image"])
        /\ coverCheck.ok <=> (coverCheck.reason = "ok")

\* a cover of exactly 5 MiB with an upper-case extension is accepted
C9_Witness ==
    /\ script = "check_cover_image" /\ pc = "done"
    /\ coverCheck.ok
    /\ \E f \in disk : PathOf(f) = metadata["cover_image"] /\ f.size = 5 * 1024 * 1024
                       /\ Lower(f.name) # f.name

(***************************************************************************)
(* C10                                                                     *)
(***************************************************************************)
\* the cover image of the record is missing on disk, too large or of another format
CoverInvalid(record) ==
    FirstFailure(disk, Get(record, "cover_image", <<>>)) # "ok"

\* C10: with an invalid cover image, no packaging run of
\* create_epub_complete.py or create_both_epubs.py produces an archive.
C10_InvalidCoverIsFatal ==
    script \in {"complete", "both"} /\ metaFile = "json" /\ CoverInvalid(persisted) =>
        WrittenArchives = {}

(***************************************************************************)
(* C11                                                                     *)
(***************************************************************************)
\* an absolute http or https URL
IsAbsoluteUrl(href) ==
    StartsWith(href, Http \o <<":", "/", "/">>) \/ StartsWith(href, Https)

\* C11: convert_html_to_xhtml (both scripts) makes the href of every
\* internal link that ends in .html end in .xhtml, and leaves every absolute
\* http or https URL as it is in the source, also one that ends in .html.
C11_LinksRewritten ==
    pc = "done" /\ script \in {"complete", "both"} /\ "anchors" \in DOMAIN call =>
        \A i \in 1..Len(call.anchors) :
            /\ IsAbsoluteUrl(call.anchors[i]) => returned[i] = call.anchors[i]
            /\ ~IsAbsoluteUrl(call.anchors[i]) /\ EndsWith(call.anchors[i], Lit.d_html) =>
                  EndsWith(returned[i], Lit.d_xhtml)


(***************************************************************************)
(* C12                                                                     *)
(***************************************************************************)
\* the line the conversion loop printed for a file says that it was left out
ReportedSkipped(d) ==
    \E i \in 1..Len(printed) :
        printed[i].file = d /\ printed[i].msg \notin {"converted", "converting"}

\* C12: for a source document without a body element, once the package
\* document of a build of create_epub_complete.py or create_both_epubs.py is
\* written, no XHTML file of that document is in the tree, the build has
\* printed that the document was skipped, and neither a manifest item nor a
\* spine entry of that build names the document.
C12_BodylessDocumentSkipped ==
    \A p \in CompleteDocs \cup BothDocs :
        \A d \in noBody \cap srcDocs :
            LET out == E("OEBPS/Text", ReplaceSuffix(d, Lit.d_html, Lit.d_xhtml))
            IN  /\ out \notin p.files
                /\ ReportedSkipped(d)
                /\ \A i \in 1..Len(p.doc.manifest) :
                       p.doc.manifest[i].href # E("Text", ReplaceSuffix(d, Lit.d_html, Lit.d_xhtml))
                /\ \A i \in 1..Len(p.doc.spine) :
                       p.doc.spine[i] \notin {Stem(d), SafeId(Stem(d))}

(***************************************************************************)
(* C13                                                                     *)
(***************************************************************************)
ListOf(sc) == IF sc = "complete" THEN HTML_FILES_ORDER ELSE FILES_TO_PROCESS

OutputOf(sc, d) ==
    IF sc = "complete" /\ d = Html(Lit.index) THEN Entry.cover
    ELSE E("OEBPS/Text", ReplaceSuffix(d, Lit.d_html, Lit.d_xhtml))

\* the files of the list a conversion loop can convert
Convertible(sc) ==
    {d \in Range(ListOf(sc)) : d \in srcDocs /\ (sc = "both" => d \notin noBody)}

\* C13: the conversion loop of create_epub_complete.py and of
\* create_both_epubs.py prints one line per file of its list, in list order,
\* a "not found" line exactly for the files that do not exist, and adds to
\* the tree the output of every existing file it can convert and nothing
\* else; with no metadata file, main ends at once and changes no tree, no
\* package document and no archive.
C13_MissingInputsSkipped ==
    [][ /\ script \in {"complete", "both"} /\ pc = "convert" =>
            LET order == ListOf(script)
                dir == IF script = "complete" THEN "epub_build" ELSE BaseDir(build)
            IN  /\ Len(printed') = Len(printed) + Len(order)
                /\ \A i \in 1..Len(order) :
                       /\ printed'[Len(printed) + i].file = order[i]
                       /\ (printed'[Len(printed) + i].msg = "not-found") <=> (order[i] \notin srcDocs)
                /\ tree'[dir] = tree[dir] \cup {OutputOf(script, d) : d \in Convertible(script)}
        /\ script \in {"complete", "both"} /\ pc = "start" /\ metaFile = "none" =>
            pc' = "done" /\ result' = "False" /\ UNCHANGED <<dirs, tree, opf, archive>>
      ]_vars

\* a file of the list is missing and reported, and a later file is converted
C13_Witness ==
    /\ script \in {"complete", "both"} /\ pc = "copy" /\ build = "Gumroad"
    /\ \E i, j \in 1..Len(ListOf(script)) :
        /\ i < j
        /\ ListOf(script)[i] \notin srcDocs
        /\ printed[i] = [msg |-> "not-found", file |-> ListOf(script)[i]]
        /\ ListOf(script)[j] \in srcDocs
        /\ OutputOf(script, ListOf(script)[j]) \in tree[IF script = "complete" THEN "epub_build" ELSE "epub_gumroad"]

(***************************************************************************)
(* C14                                                                     *)
(***************************************************************************)
\* C14: when check_metadata.py, create_epub_complete.py, create_both_epubs.py
\* or create_kdp_epub.py has ended, the exit status is 0 if main succeeded,
\* and it is not 0 if the metadata file is missing or is not valid JSON, or
\* if create_kdp_epub.py found no epub directory.
C14_ExitStatusReflectsOutcome ==
    pc = "done" /\ script \in {"check_metadata", "complete", "both", "kdp"} =>
        /\ result = "True" => ExitStatus(script, result) = 0
        /\ metaFile \in {"none", "bad"} => ExitStatus(script, result) # 0
        /\ script = "kdp" /\ "epub" \notin dirs => ExitStatus(script, result) # 0

(***************************************************************************)
(* C15                                                                     *)
(***************************************************************************)
\* C15: a run of create_epub_complete.py or create_both_epubs.py that loaded
\* its metadata, wrote both archives and called run_epubcheck on each ends
\* with the exit status of the run in which the validator passes, which is
\* 0, whatever the validator reported (pass, issues, timeout, skipped).
C15_ExitStatusIgnoresValidator ==
    pc = "done" /\ script \in {"complete", "both"} /\ Len(epubcheck) = 2 =>
        ExitStatus(script, result) = 0

(***************************************************************************)
(* C16                                                                     *)
(***************************************************************************)
\* the image files in the order copy_images meets them
Encountered(root, other) ==
    LET all == [i \in 1..Len(root) |-> E(".", root[i])]
               \o [i \in 1..Len(other) |-> E("otherbooks", other[i])]
    IN  SelectSeq(all, LAMBDA f : IsImageName(f.name))

FirstWithName(files, s) ==
    files[CHOOSE i \in 1..Len(files) :
              /\ sanitize_filename(files[i].name) = s
              /\ \A j \in 1..(i - 1) : sanitize_filename(files[j].name) # s]

\* C16: copy_images of create_epub_complete.py makes, for each distinct
\* sanitized name of an image file of the root directory and of otherbooks,
\* exactly one copy, and its source is the first file with that sanitized
\* name in the order root listing, then otherbooks listing; nothing else is
\* copied, and the returned count is the number of distinct sanitized names.
C16_FirstCopyWins ==
    pc = "done" /\ "root" \in DOMAIN call =>
        LET files == Encountered(call.root, call.other)
            names == {sanitize_filename(files[i].name) : i \in 1..Len(files)}
        IN  /\ \A s \in names :
                   /\ Cardinality({i \in 1..Len(returned.copies) : returned.copies[i].dst = s}) = 1
                   /\ \A i \in 1..Len(returned.copies) :
                          returned.copies[i].dst = s =>
                              returned.copies[i].src = FirstWithName(files, s)
            /\ \A i \in 1..Len(returned.copies) : returned.copies[i].dst \in names
            /\ returned.copied_count = Cardinality(names)

\* a file of otherbooks collides with a file of the root directory
C16_Witness ==
    /\ pc = "done" /\ "root" \in DOMAIN call
    /\ \E i \in 1..Len(call.root), j \in 1..Len(call.other) :
          /\ IsImageName(call.root[i])
          /\ call.root[i] # call.other[j]
          /\ sanitize_filename(call.root[i]) = sanitize_filename(call.other[j])
    /\ returned.copied_count < Len(Encountered(call.root, call.other))

(***************************************************************************)
(* C17                                                                     *)
(***************************************************************************)
\* the files the first steps of a build write before any conversion
SetupFiles == {Entry.mimetype, Entry.container, Entry.style}

\* C17: in every build of create_epub_complete.py and create_both_epubs.py,
\* when the conversions start the working directory of the build holds only
\* the files the build itself has just written, and every XHTML document a
\* written manifest lists under Text comes from a source file that exists
\* in this run.
C17_FreshWorkingDirectory ==
    /\ script = "complete" /\ pc = "convert" => tree["epub_build"] \subseteq SetupFiles
    /\ script = "both" /\ pc = "convert" => tree[BaseDir(build)] \subseteq SetupFiles
    /\ \A p \in CompleteDocs \cup BothDocs :
           \A i \in 1..Len(p.doc.manifest) :
               p.doc.manifest[i].href.dir = "Text" =>
                   ReplaceSuffix(p.doc.manifest[i].href.name, Lit.d_xhtml, Lit.d_html) \in srcDocs

(***************************************************************************)
(* C18                                                                     *)
(***************************************************************************)
WorkDir == IF script = "complete" THEN "epub_build" ELSE BaseDir(build)

\* the images a build has to copy before the manifest is built
ImagesToCopy ==
    IF script = "complete"
    THEN {E("OEBPS/images", sanitize_filename(f.name)) :
          f \in {g \in disk : g.dir \in {".", "otherbooks"} /\ IsImageName(g.name)}}
    ELSE {E("OEBPS/Images", f.name) : f \in {g \in disk : g.dir = "." /\ IsImageName(g.name)}}

\* the archive the next call of run_epubcheck validates
NextValidated ==
    IF script = "complete" THEN (IF epubcheck = <<>> THEN "Gumroad" ELSE "KDP") ELSE build

\* C18: in every build of create_epub_complete.py and create_both_epubs.py
\* the step that writes the package document finds every convertible
\* document converted and every image copied, and writes no archive; the
\* step that assembles the archive finds the package document and the
\* navigation documents written and packs that package document; and
\* run_epubcheck is called only on an archive this run has written.
C18_StepOrder ==
    [][ (script \in {"complete", "both"}) =>
          /\ opf' # opf /\ opf'[WorkDir] # NoDoc =>
                /\ {OutputOf(script, d) : d \in Convertible(script)} \subseteq tree[WorkDir]
                /\ ImagesToCopy \subseteq tree[WorkDir]
                /\ archive' = archive /\ epubcheck' = epubcheck
          /\ archive' # archive =>
                /\ {Entry.opf, Entry.ncx} \subseteq tree[WorkDir]
                /\ script = "complete" => Entry.nav \in tree[WorkDir]
                /\ opf[WorkDir] # NoDoc /\ archive'[build].doc = opf[WorkDir]
                /\ epubcheck' = epubcheck
          /\ epubcheck' # epubcheck => NextValidated \in WrittenArchives
      ]_vars

\* a build with documents and images has been packed and validated
C18_Witness ==
    /\ script \in {"complete", "both"} /\ pc = "done" /\ Len(epubcheck) = 2
    /\ WrittenArchives = {"Gumroad", "KDP"}
    /\ \E f \in disk : f.dir = "." /\ IsImageName(f.name)
    /\ \A a \in WrittenArchives : Len(archive[a].doc.manifest) > 3

(***************************************************************************)
(* C19                                                                     *)
(***************************************************************************)
\* the packaging tree the running script packs
PackedDir == IF script \in {"kdp", "final"} THEN "epub" ELSE WorkDir

\* the directories of a packaging tree below META-INF and OEBPS
PackedDirs == {"META-INF", "OEBPS", "OEBPS/Text", "OEBPS/Styles", "OEBPS/Images", "OEBPS/images"}

\* C19: when a script has written its archive without raising, the archive
\* holds the mimetype marker and every file of the packaging tree under
\* META-INF and OEBPS as it is when the archive is written, each exactly once
\* and nothing else, whether or not an archive of the same name existed
\* before.
C19_ArchiveIsTheTree ==
    [][ \A a \in ArchiveNames :
          archive'[a] # archive[a] /\ archive'[a].exists /\ result' # "crash" =>
              LET entries == archive'[a].entries
              IN  /\ {entries[i].entry : i \in 1..Len(entries)}
                        = {Entry.mimetype} \cup {f \in tree[PackedDir] : f.dir \in PackedDirs}
                  /\ \A i, j \in 1..Len(entries) : i # j => entries[i].entry # entries[j].entry
      ]_vars

(***************************************************************************)
(* C20                                                                     *)
(***************************************************************************)
\* C20: in a package document written by create_content_opf from metadata
\* that names a cover image, exactly one manifest item carries the id the
\* cover meta element names; that item is marked with the cover-image
\* property, its file is the sanitized basename of the cover_image path and
\* is in the images directory of the tree; no other item carries the
\* property.
C20_CoverReferenceResolves ==
    \A p \in CompleteDocs \cup BothDocs :
        "cover_image" \in DOMAIN metadata =>
            LET items == p.doc.manifest
                cover_name == sanitize_filename(Basename(metadata["cover_image"]))
                carriers == {i \in 1..Len(items) : items[i].id = p.doc.cover}
            IN  /\ Cardinality(carriers) = 1
                /\ \A i \in carriers :
                       /\ items[i].props = "cover-image"
                       /\ items[i].href.name = cover_name
                       /\ \E f \in p.files :
                              f.dir \in {"OEBPS/images", "OEBPS/Images"} /\ f.name = cover_name
                /\ \A i \in 1..Len(items) : items[i].props = "cover-image" => i \in carriers

(***************************************************************************)
(* C21                                                                     *)
(***************************************************************************)
\* the media type that belongs to the extension of an image file
MediaTypeOfExtension(name) ==
    IF EndsWith(Lower(name), Lit.d_jpg) \/ EndsWith(Lower(name), Lit.d_jpeg) THEN "image/jpeg"
    ELSE IF EndsWith(Lower(name), Lit.d_png) THEN "image/png"
    ELSE IF EndsWith(Lower(name), Lit.d_gif) THEN "image/gif"
    ELSE IF EndsWith(Lower(name), Lit.d_svg) THEN "image/svg+xml"
    ELSE "none"

\* C21: in the manifest create_content_opf writes (both scripts), each item
\* of an image file of the images directory, the item of the cover file
\* included, has the media type of the file's extension.
C21_ImageMediaTypes ==
    pc = "done" /\ "images" \in DOMAIN call =>
        \A i \in 1..Len(returned) :
            returned[i].href.dir \in {"images", "Images"}
            /\ returned[i].href.name \in Range(call.images) =>
                returned[i].media = MediaTypeOfExtension(returned[i].href.name)

(***************************************************************************)
(* C22                                                                     *)
(***************************************************************************)
\* the text with every reference kept, &nbsp; written as &#160;, every
\* other ampersand written as &amp;, and every other character as it is
RECURSIVE EscapedText(_, _)
EscapedText(s, i) ==
    IF i > Len(s) THEN <<>>
    ELSE LET m == EntityMatchLen(s, i)
         IN  IF m > 0
             THEN (IF SubSeq(s, i, i + m - 1) = <<"&", "n", "b", "s", "p", ";">>
                   THEN <<"&", "#", "1", "6", "0", ";">> ELSE SubSeq(s, i, i + m - 1))
                  \o EscapedText(s, i + m)
             ELSE (IF s[i] = "&" THEN <<"&", "a", "m", "p", ";">> ELSE <<s[i]>>)
                  \o EscapedText(s, i + 1)

\* C22: the escaping step of create_both_epubs.convert_html_to_xhtml keeps
\* every reference of its input (&nbsp; becomes &#160;), writes every other
\* ampersand as &amp;, so that every ampersand of the output starts a
\* reference, and changes no other character, also when the text holds a
\* string of the shape of the step's placeholder.
C22_AmpersandsEscaped ==
    pc = "done" /\ "text" \in DOMAIN call =>
        /\ returned = EscapedText(call.text, 1)
        /\ \A i \in 1..Len(returned) : returned[i] = "&" => EntityMatchLen(returned, i) > 0

(***************************************************************************)
(* C23                                                                     *)
(***************************************************************************)
\* C23: the document convert_html_to_xhtml writes (both scripts) holds no
\* script element, no style block of the source and no navigation element
\* (nav, or an element of class navigation-buttons, nav-button or
\* enter-button), wherever they stand in the source.
C23_NoScriptStyleNavigation ==
    pc = "done" /\ "doc" \in DOMAIN call =>
        \A i \in 1..Len(returned) :
            /\ returned[i].tag \notin {"script", "style", "nav"}
            /\ returned[i].class \notin {"navigation-buttons", "nav-button", "enter-button"}

C25_UpdateIdempotent ==
    script = "update_all_print_styles" /\ "html_file" \in DOMAIN call /\ Len(returned) = 2 =>
        returned[2].content = returned[1].content

(***************************************************************************)
(* C26                                                                     *)
(***************************************************************************)
\* C26: a second run of add_print_css_to_file on the file its first run
\* left leaves the file as it is and returns False, and the first run
\* returns True only if it put its rules into the file.
C26_SecondInjectionSkipped ==
    script = "add_print_css" /\ "html_file" \in DOMAIN call /\ Len(returned) = 2 =>
        /\ returned[2].content = returned[1].content
        /\ returned[2].value = FALSE
        /\ returned[1].value => returned[1].content # call.html_file

(***************************************************************************)
(* C27                                                                     *)
(***************************************************************************)
\* C27: once check_metadata.main has prompted and saved the merged record,
\* every field that book_metadata.json held with a value when the script
\* started has that value in the saved record.
C27_PresentFieldsKept ==
    script = "check_metadata" /\ prompted # <<>> /\ pc \notin {"start", "required", "optional", "save"} =>
        \A k \in DOMAIN initialRecord :
            initialRecord[k] # <<>> => k \in DOMAIN persisted /\ persisted[k] = initialRecord[k]

(***************************************************************************)
(* C28                                                                     *)
(***************************************************************************)
\* C28: in every build content.opf and toc.ncx carry the same identifier,
\* and in create_epub_complete.py that identifier is the one made from the
\* clock at the build's first get_book_id, not one an earlier build cached.
C28_BookIdConstantInBuild ==
    "now" \in DOMAIN call =>
        /\ \A i, j \in 1..Len(returned) :
              /\ returned[i].build = returned[j].build
              /\ returned[i].op = "create_content_opf" /\ returned[j].op = "create_toc_ncx"
              => returned[i].value = returned[j].value
        /\ \A i \in 1..Len(returned) :
              script = "complete" /\ returned[i].op = "create_content_opf"
              => returned[i].value = UrnPrefix \o Strftime(returned[i].now)

\* both builds of create_epub_complete.py are done, the second got another
\* identifier than the first, and the clock showed another second at its
\* create_toc_ncx than at its create_content_opf
C28_Witness ==
    /\ "now" \in DOMAIN call /\ script = "complete" /\ pc = "built" /\ Len(returned) = 6
    /\ returned[5].value # returned[2].value
    /\ Strftime(returned[6].now) # Strftime(returned[5].now)
    /\ returned[6].value = returned[5].value

(***************************************************************************)
(* C29                                                                     *)
(***************************************************************************)
\* C29: after fix_content_opf_duplicates the item ids are pairwise
\* distinct, an item has another id than before only if an earlier item had
\* the same id before, and a second run of the pass changes nothing.
C29_OnlyDuplicatesRenamed ==
    script = "final" /\ "items" \in DOMAIN call /\ Len(returned) = 2 =>
        /\ \A i, j \in 1..Len(returned[1]) : i # j => returned[1][i].id # returned[1][j].id
        /\ \A i \in 1..Len(call.items) :
              returned[1][i].id # call.items[i].id
              => \E j \in 1..(i - 1) : call.items[j].id = call.items[i].id
        /\ returned[2] = returned[1]

(***************************************************************************)
(* C30                                                                     *)
(***************************************************************************)
\* the content documents of a build tree
BuildDocuments(files) == {f \in files : f = Entry.cover \/ f.dir = "OEBPS/Text"}

\* C30: toc.ncx and nav.xhtml of create_epub_complete.py hold one entry for
\* each document of the build tree and no other entry, in the order of the
\* spine, and the playOrder values of toc.ncx are 1, 2, ..., k.
C30_NavigationMatchesDocuments ==
    script = "complete" /\ "files" \in DOMAIN call /\ pc = "done" =>
        LET navPoints == returned[1]
            navItems == returned[2]
            k == Cardinality(BuildDocuments(call.files))
        IN  /\ Len(navPoints) = k /\ Len(navItems) = k
            /\ {FullPath(navPoints[i].src) : i \in 1..k} = BuildDocuments(call.files)
            /\ [i \in 1..k |-> SafeId(navPoints[i].id)] = CompleteSpineItems(SPINE_ORDER, call.files)
            /\ \A i \in 1..k : navPoints[i].playOrder = i /\ navItems[i].src = navPoints[i].src

\* a build in which a document is absent and a later one is present
C30_Witness ==
    /\ script = "complete" /\ "files" \in DOMAIN call /\ pc = "done"
    /\ E("OEBPS/Text", Xhtml(Lit.dedication)) \notin call.files
    /\ E("OEBPS/Text", Xhtml(Lit.toc)) \in call.files
    /\ Entry.cover \in call.files
    /\ Len(returned[1]) = Len(SPINE_ORDER) - 1
Next ==
    \/ CompleteLoadMetadata
    \/ CompleteSetup
    \/ CompleteConvertAll
    \/ CompleteCopyImages
    \/ CompleteCreateContentOpf
    \/ CompleteCreateTocNcx
    \/ CompleteCreateNavXhtml
    \/ CompleteCreateEpubFile
    \/ CompleteCleanup
    \/ CompleteRunEpubcheck
    \/ BothLoadMetadata
    \/ BothEnsureDirectoryStructure
    \/ BothCopyStylesFile
    \/ BothConvert
    \/ BothCopyImages
    \/ BothCreateCoverPage
    \/ BothCreateContentOpf
    \/ BothCreateTocNcx
    \/ BothCreateEpubFile
    \/ BothRunEpubcheck
    \/ KdpLoadMetadata
    \/ KdpCreateContentOpf
    \/ KdpFixSpine
    \/ KdpWriteEpub
    \/ FinalFixDuplicates
    \/ FinalFixSpine
    \/ FinalWriteEpub

Spec == Init /\ [][Next]_vars

=============================================================================
